---- MODULE Spec2Model ----
(***************************************************************************)
(* Verification model of the AI career-mentor chatbot services.            *)
(*                                                                         *)
(*   Spec        AzureOpenAIService: conversation contexts, the rate-limit *)
(*               semaphore, generate_response (with its tenacity retry)    *)
(*               and the generate_streaming_response generator.            *)
(*   SpecSem     the semaphore alone, with more callers than permits.      *)
(*   SpecParams  the temperature and max_tokens handed to the LLM call.    *)
(*   SpecSearch  AzureCognitiveSearchService.semantic_search.              *)
(*   SpecRag     RAGEnhancedAIService.generate_rag_response.               *)
(*   SpecApi     the POST /chat endpoint and its status codes.             *)
(*   SpecClear   the two services' clearing of one conversation.           *)
(*   SpecDelete  DELETE /conversations/{id} beside calls in flight.        *)
(*   SpecContext the messages generate_response sends to the LLM.          *)
(*   SpecSeed    KnowledgeBaseSeeder.seed_knowledge_base over              *)
(*               index_documents_batch.                                    *)
(*   SpecCache   SimpleResponseCache: get, set and clear under its lock.   *)
(*   SpecAlerts  MonitoringAlertsService: the polling loop, the evaluation *)
(*               of the alert rules, acknowledging.                        *)
(*   SpecMetrics the counters MonitoringMiddleware records per request and *)
(*               the rates _calculate_derived_metrics derives from them.   *)
(*                                                                         *)
(* Lengths of message contents are kept as numbers (characters); the text  *)
(* of a content is a sequence of tokens, so that concatenation, order and  *)
(* identity of messages can be observed.                                   *)
(***************************************************************************)
EXTENDS Integers, Sequences, FiniteSets, TLC

(***************************************************************************)
(* Bounds of the model.                                                    *)
(***************************************************************************)
MaxCalls == 2
MaxHistoryLimit == 4
MaxChunks == 1
MaxCallers == 11
MaxIndexResults == 6
MaxSearchResults == 3
MaxRagCalls == 2
MaxRequests == 2
MaxDeletes == 2
MaxExchanges == 7
MaxCacheSize == 2
MaxClock == 2
MaxCacheCalls == 3
MaxChecks == 5
MaxRecorded == 4

(***************************************************************************)
(* Program constants.                                                      *)
(***************************************************************************)
SemaphoreLimit == 10
min_length == 1
max_length == 4000
RetryAttempts == 3
default_temperature == 7       \* settings.default_temperature = 0.7, in tenths
max_tokens == 1000             \* settings.max_tokens
MaxTemperature == 20           \* ChatRequest.temperature le=2.0, in tenths
MaxTokensAllowed == 4000       \* ChatRequest.max_tokens le=4000
max_retrieved_docs == 5        \* RAGEnhancedAIService.max_retrieved_docs
max_history_messages == 20     \* RAGEnhancedAIService.max_history_messages
query_max_length == 1000       \* SearchQuery.query max_length
context_max_length == 2000     \* SearchQuery.conversation_context max_length
default_max_conversation_history == 20   \* Settings.max_conversation_history default
recent_history_length == 10    \* _build_conversation_context: history[-10:]
sample_documents == 6          \* get_sample_documents: the KnowledgeDocument objects it builds
batch_size == 10               \* index_documents_batch: batch_size
check_interval == 30           \* _monitoring_loop: asyncio.sleep(30)
backoff_interval == 60         \* _monitoring_loop: asyncio.sleep(60)
alert_history_limit == 100     \* _resolve_alert: self.alert_history[-100:]

Tasks == {1, 2}
ConvIds == {"c1", "c2"}

Max(a, b) == IF a >= b THEN a ELSE b
Min(a, b) == IF a <= b THEN a ELSE b

(***************************************************************************)
(* ChatMessage: pydantic validates content on construction                 *)
(* (min_length = 1, max_length = 4000); a content violating it raises      *)
(* ValidationError.                                                        *)
(***************************************************************************)
Content(text, len) == [text |-> text, len |-> len]

ValidContent(content) == content.len >= min_length /\ content.len <= max_length

ChatMessage(role, content) == [role |-> role, content |-> content]

(***************************************************************************)
(* Python's list[-n:]: the last n elements for n > 0, and the whole list   *)
(* for n = 0 (because -0 = 0).                                             *)
(***************************************************************************)
SliceLast(s, n) ==
    IF n = 0 THEN s ELSE SubSeq(s, Max(1, Len(s) - n + 1), Len(s))

(***************************************************************************)
(* Settings.max_conversation_history is an unvalidated int field.          *)
(***************************************************************************)
HistoryLimits == 0..MaxHistoryLimit

VARIABLES
    max_conversation_history,  \* settings.max_conversation_history
    conversation_contexts,     \* self._conversation_contexts: conv id -> list of ChatMessage
    semaphore,                 \* self._semaphore's value
    task,                      \* the position and locals of each call in flight
    calls,                     \* number of calls started so far
    recorded,                  \* history: every message appended per conversation since created / cleared
    returned,                  \* history: the call that ended last, and how
    concurrent,                \* history: calls that overlapped another call of their conversation
    section,                   \* SpecSem: number of calls inside `async with self._semaphore`, per method
    waiting,                   \* SpecSem: number of calls blocked in self._semaphore.acquire(), per method
    request,                   \* SpecParams: the ChatRequest's temperature and max_tokens
    llm_call,                  \* SpecParams: the arguments of client.chat.completions.create
    query,                     \* SpecSearch: the SearchQuery given to semantic_search
    index_answer,              \* SpecSearch: what search_client.search returned
    search_results,            \* SpecSearch: what semantic_search returned
    search_pc,                 \* SpecSearch: where the semantic_search call stands
    conversation_history,      \* SpecRag: RAGEnhancedAIService.conversation_history
    rag,                       \* SpecRag: the position and locals of the generate_rag_response call
    rag_response,              \* SpecRag: how the last generate_rag_response call ended
    rag_calls,                 \* SpecRag: number of generate_rag_response calls so far
    api,                       \* SpecApi: the POST /chat request being handled and its answer
    clear_call,                \* SpecClear: the last clearing call, with the store before and after it
    deletion,                  \* SpecDelete: per conversation, the state of its last DELETE request
    sent,                      \* SpecContext: the generate_response call waiting for the LLM and its messages
    seed,                      \* SpecSeed: the seed_knowledge_base call, its IndexingStatus and the index
    max_size,                  \* SpecCache: SimpleResponseCache.max_size
    ttl_seconds,               \* SpecCache: SimpleResponseCache.ttl_seconds
    cache,                     \* SpecCache: self._cache, the entries in insertion order
    clock,                     \* SpecCache: time.time()
    cache_call,                \* SpecCache: the last call of get, set or clear and what it did
    last_set,                  \* SpecCache: history: per normalised message and flag, the response stored last
    active_alerts,             \* SpecAlerts: self.active_alerts: alert id -> Alert
    alert_history,             \* SpecAlerts: self.alert_history
    notifications,             \* SpecAlerts: history: the calls of the notification handler
    monitor,                   \* SpecAlerts: the monitoring loop: its position, the time, the metric value
    counters,                  \* SpecMetrics: MetricsCollector.counters
    current_metrics            \* SpecMetrics: what _calculate_derived_metrics returned last

service_vars == <<max_conversation_history, conversation_contexts, task, calls,
                  recorded, returned, concurrent>>
sem_vars == <<section, waiting>>
params_vars == <<request, llm_call>>
search_vars == <<query, index_answer, search_results, search_pc>>
rag_vars == <<conversation_history, rag, rag_response, rag_calls>>
api_vars == <<api>>
clear_vars == <<clear_call>>
delete_vars == <<deletion>>
context_vars == <<sent>>
seed_vars == <<seed>>
cache_vars == <<max_size, ttl_seconds, cache, clock, cache_call, last_set>>
alert_vars == <<active_alerts, alert_history, notifications, monitor>>
metrics_vars == <<counters, current_metrics>>

vars == <<service_vars, semaphore, sem_vars, params_vars, search_vars, rag_vars, api_vars,
         clear_vars, delete_vars, context_vars, seed_vars, cache_vars, alert_vars, metrics_vars>>

\* stream: the chunks the generator has yielded so far.
IdleTask ==
    [pc |-> "idle", call |-> 0, conversation_id |-> "none", attempt |-> 0,
     full_response |-> Content(<<>>, 0), chunk_count |-> 0, stream |-> <<>>,
     error |-> "none"]

\* StreamingChatChunk
StreamingChatChunk(id, content, is_final) ==
    [id |-> id, content |-> content, is_final |-> is_final]

\* Mutant: the assistant message is appended before the user message.
UpdateConversationContext_Swapped(contexts, max_history, cid, user_message, ai_response) ==
    LET context == IF cid \in DOMAIN contexts THEN contexts[cid] ELSE <<>>
        put(list) == [c \in (DOMAIN contexts) \cup {cid} |->
                         IF c = cid THEN list ELSE contexts[c]]
        both == context \o <<ChatMessage("assistant", ai_response),
                             ChatMessage("user", user_message)>>
    IN  IF ~ValidContent(user_message) \/ ~ValidContent(ai_response)
        THEN [contexts |-> put(context), appended |-> <<>>, raised |-> TRUE]
        ELSE [contexts |-> put(IF Len(both) > max_history
                               THEN SliceLast(both, max_history) ELSE both),
              appended |-> <<ChatMessage("user", user_message),
                             ChatMessage("assistant", ai_response)>>,
              raised |-> FALSE]

\* Mutant: the update starts from a fresh list, losing what was stored.
UpdateConversationContext_Lost(contexts, max_history, cid, user_message, ai_response) ==
    LET put(list) == [c \in (DOMAIN contexts) \cup {cid} |->
                         IF c = cid THEN list ELSE contexts[c]]
        both == <<ChatMessage("user", user_message),
                  ChatMessage("assistant", ai_response)>>
    IN  IF ~ValidContent(user_message) \/ ~ValidContent(ai_response)
        THEN [contexts |-> contexts, appended |-> <<>>, raised |-> TRUE]
        ELSE [contexts |-> put(IF Len(both) > max_history
                               THEN SliceLast(both, max_history) ELSE both),
              appended |-> both, raised |-> FALSE]

(***************************************************************************)
(* _update_conversation_context: create the list if absent, append the     *)
(* user message, append the assistant message, then trim.  Constructing a  *)
(* ChatMessage can raise; what was appended before stays appended, and the *)
(* trimming is skipped.                                                    *)
(***************************************************************************)
UpdateConversationContext(contexts, max_history, cid, user_message, ai_response) ==
    LET context == IF cid \in DOMAIN contexts THEN contexts[cid] ELSE <<>>
        put(list) == [c \in (DOMAIN contexts) \cup {cid} |->
                         IF c = cid THEN list ELSE contexts[c]]
        withUser == Append(context, ChatMessage("user", user_message))
        withBoth == Append(withUser, ChatMessage("assistant", ai_response))
    IN  IF ~ValidContent(user_message)
        THEN [contexts |-> put(context), appended |-> <<>>, raised |-> TRUE]
        ELSE IF ~ValidContent(ai_response)
        THEN [contexts |-> put(withUser),
              appended |-> <<ChatMessage("user", user_message)>>, raised |-> TRUE]
        ELSE [contexts |->
                 put(IF Len(withBoth) > max_history
                     THEN SliceLast(withBoth, max_history) ELSE withBoth),
              appended |-> <<ChatMessage("user", user_message),
                             ChatMessage("assistant", ai_response)>>,
              raised |-> FALSE]

\* The text of call n's user message, and of the reply to it.
UserText(call) == <<<<call, 0>>>>
ReplyText(call) == <<<<call, 1>>>>

UserContent(call) == Content(UserText(call), min_length)

Record(cid, appended) ==
    [recorded EXCEPT ![cid] = @ \o appended]

ReplyLengths == {0, min_length, max_length + 1}
ChunkLengths == {min_length, max_length}

Restrict(f, S) == [x \in S |-> f[x]]

InFlight(cid) == {t \in Tasks : task[t].pc # "idle" /\ task[t].conversation_id = cid}

Methods == {"generate_response", "generate_streaming_response"}

SemInit ==
    /\ section = [m \in Methods |-> 0]
    /\ waiting = [m \in Methods |-> 0]

(***************************************************************************)
(* asyncio.Semaphore: acquire() returns at once while the value is         *)
(* positive and blocks while it is 0.                                      *)
(***************************************************************************)
\* Mutant: acquire() never blocks.
Locked_Never(value) == FALSE

Locked(value) == value = 0

\* What the actions of Spec leave alone: the state of the other specifications.
ServiceFrame == UNCHANGED <<sem_vars, params_vars, search_vars, rag_vars, api_vars, clear_vars, delete_vars,
        context_vars, seed_vars, cache_vars, alert_vars, metrics_vars>>

(***************************************************************************)
(* An optional request parameter: None, or a supplied number.              *)
(* Temperatures are counted in tenths.                                     *)
(***************************************************************************)
None == [given |-> FALSE, value |-> 0]
Given(v) == [given |-> TRUE, value |-> v]

ParamsIdle ==
    /\ request = [temperature |-> None, max_tokens |-> None]
    /\ llm_call = [made |-> FALSE, method |-> "none", temperature |-> 0, max_tokens |-> 0]

(***************************************************************************)
(* Scores.  A similarity is counted in points, One points making 1.0; the  *)
(* reranker score of the index (0 to 4 when well-behaved) and its search   *)
(* score are counted in the same points.                                   *)
(***************************************************************************)
One == 4 * 100
Points(hundredths) == 4 * hundredths

SearchIdle ==
    /\ query = [similarity_threshold |-> Points(70), max_results |-> 0]
    /\ index_answer = <<>>
    /\ search_results = <<>>
    /\ search_pc = "idle"

\* The RAG service after construction: no history, no call.
NoPrompt == [kind |-> "none", snippets |-> <<>>, turns |-> <<>>]

IdleRag ==
    [pc |-> "idle", message |-> Content(<<>>, 0), conversation_id |-> "none",
     search_calls |-> 0, retrieved_sources |-> <<>>, prompt |-> NoPrompt]

NoResponse ==
    [status |-> "none", knowledge_enhanced |-> FALSE, confidence_score |-> None,
     retrieved_sources |-> <<>>]

RagIdle ==
    /\ conversation_history = <<>>
    /\ rag = IdleRag
    /\ rag_response = NoResponse
    /\ rag_calls = 0

\* The API before any request: nothing received, nothing answered.
Absent(kind) == [given |-> FALSE, value |-> kind]

NoBody ==
    [message |-> Absent(Content(<<>>, 0)), user_id |-> Absent(""),
     conversation_id |-> Absent(""), temperature |-> None, max_tokens |-> None]

ApiIdle ==
    api = [pc |-> "idle", body |-> NoBody, use_rag |-> FALSE, conversation_id |-> "none",
           status |-> 0, raised |-> "none", service_calls |-> 0, requests |-> 0]

ClearIdle ==
    clear_call = [service |-> "none", conversation_id |-> "none",
                  before |-> <<>>, after |-> <<>>]

\* No DELETE request yet for any conversation.
DeleteIdle ==
    deletion = [c \in ConvIds |-> [state |-> "none", accepted_at |-> 0, count |-> 0]]

\* No seeding was started: there is no IndexingStatus and nothing is indexed.
NoStatus ==
    [status |-> "none", documents_processed |-> 0, documents_successful |-> 0,
     documents_failed |-> 0, error_messages |-> 0]

IdleSeed ==
    [pc |-> "idle", batch_start |-> 0, document |-> 0, batch_documents |-> <<>>,
     status |-> NoStatus, indexed |-> {}, result |-> "none"]

SeedIdle == seed = IdleSeed

\* SimpleResponseCache: no entry (`key in self._cache` is false) and no call made.
NoEntry == [key |-> <<>>, response |-> "None", timestamp |-> 0]

NoCall ==
    [op |-> "none", message |-> <<>>, use_rag |-> FALSE, at |-> 0, found |-> NoEntry,
     result |-> "None", removed |-> <<>>, n |-> 0]

CacheIdle ==
    /\ max_size = MaxCacheSize
    /\ ttl_seconds = 1
    /\ cache = <<>>
    /\ clock = 0
    /\ cache_call = NoCall
    /\ last_set = <<>>

\* MonitoringAlertsService after construction: the loop has made no check.
IdleMonitor == [pc |-> "sleeping", rule |-> 0, utcnow |-> 0, metric_value |-> 0, checks |-> 0]

AlertIdle ==
    /\ active_alerts = <<>>
    /\ alert_history = <<>>
    /\ notifications = <<>>
    /\ monitor = IdleMonitor

\* MetricsCollector after construction (a defaultdict: no counter yet), and
\* no derived metrics calculated.
NoMetrics ==
    [calculated |-> FALSE, error_rate_percentage |-> [num |-> 0, den |-> 1],
     success_rate_percentage |-> [num |-> 0, den |-> 1], total_requests |-> 0,
     total_errors |-> 0]

MetricsIdle ==
    /\ counters = <<>>
    /\ current_metrics = NoMetrics

\* No call is waiting for the LLM.
ContextIdle ==
    sent = [pc |-> "idle", conversation_id |-> "none", messages |-> <<>>]

\* AzureOpenAIService after construction.
ServiceStart ==
    /\ conversation_contexts = << >>
    /\ semaphore = SemaphoreLimit
    /\ task = [t \in Tasks |-> IdleTask]
    /\ calls = 0
    /\ recorded = [c \in ConvIds |-> <<>>]
    /\ returned = [call |-> 0, kind |-> "none", conversation_id |-> "none",
                   result |-> "none"]
    /\ concurrent = {}

ServiceInit ==
    /\ max_conversation_history \in HistoryLimits
    /\ ServiceStart

Init == ServiceInit /\ SemInit /\ ParamsIdle /\ SearchIdle /\ RagIdle /\ ApiIdle /\ ClearIdle /\ DeleteIdle
        /\ ContextIdle /\ SeedIdle /\ CacheIdle /\ AlertIdle /\ MetricsIdle

(***************************************************************************)
(* The start of a call, shared by generate_response and                    *)
(* generate_streaming_response: `async with self._semaphore` takes a       *)
(* permit (the call cannot proceed while the value is 0), the context is   *)
(* built, and the call suspends in client.chat.completions.create.         *)
(***************************************************************************)
StartCall(t, cid, pc) ==
    /\ \A u \in Tasks : u < t => task[u].pc # "idle"
    /\ calls < MaxCalls
    /\ ~Locked(semaphore)
    /\ semaphore' = semaphore - 1
    /\ calls' = calls + 1
    /\ task' = [task EXCEPT ![t] = [IdleTask EXCEPT !.pc = pc, !.call = calls + 1,
                                       !.conversation_id = cid, !.attempt = 1]]
    /\ concurrent' = IF InFlight(cid) # {}
                     THEN concurrent \cup {calls + 1} \cup {task[u].call : u \in InFlight(cid)}
                     ELSE concurrent
    /\ UNCHANGED <<max_conversation_history, conversation_contexts, recorded, returned>>

(***************************************************************************)
(* The end of a call: the semaphore is released on leaving `async with`,   *)
(* by return or by exception alike.                                        *)
(***************************************************************************)
EndCall(t, result) ==
    /\ semaphore' = semaphore + 1
    /\ task' = [task EXCEPT ![t] = IdleTask]
    /\ returned' = [call |-> task[t].call,
                    kind |-> IF task[t].pc \in {"g_llm", "g_backoff"}
                             THEN "generate_response" ELSE "generate_streaming_response",
                    conversation_id |-> task[t].conversation_id,
                    result |-> result]

GenerateResponse_Call(t, cid) ==
    /\ task[t].pc = "idle"
    /\ StartCall(t, cid, "g_llm")
    /\ ServiceFrame

(***************************************************************************)
(* generate_response, from the completion's arrival to the return.         *)
(* An empty reply raises ValueError before the context is touched.         *)
(***************************************************************************)
GenerateResponse_Reply(t, len) ==
    /\ task[t].pc = "g_llm"
    /\ LET cid == task[t].conversation_id
           ai_message == Content(ReplyText(task[t].call), len)
           upd == UpdateConversationContext(conversation_contexts,
                      max_conversation_history, cid, UserContent(task[t].call), ai_message)
       IN  IF len = 0
           THEN /\ EndCall(t, "error")
                /\ UNCHANGED <<conversation_contexts, recorded>>
           ELSE /\ conversation_contexts' = upd.contexts
                /\ recorded' = Record(cid, upd.appended)
                /\ EndCall(t, IF upd.raised THEN "error" ELSE "ok")
    /\ UNCHANGED <<max_conversation_history, calls, concurrent>>
    /\ ServiceFrame

(***************************************************************************)
(* The LLM request fails.  tenacity retries httpx.HTTPError and            *)
(* asyncio.TimeoutError until the third attempt; anything else is raised   *)
(* at once.  The semaphore is released before the backoff sleep.           *)
(***************************************************************************)
LlmErrors ==
    {"httpx.HTTPError", "asyncio.TimeoutError", "APIError", "RateLimitError",
     "APITimeoutError"}

\* Mutant: every error is retried.
Retryable_Any(error) == TRUE

\* retry_if_exception_type((httpx.HTTPError, asyncio.TimeoutError))
Retryable(error) == error \in {"httpx.HTTPError", "asyncio.TimeoutError"}

GenerateResponse_Error(t, error) ==
    /\ task[t].pc = "g_llm"
    /\ IF Retryable(error) /\ task[t].attempt < RetryAttempts
       THEN /\ task' = [task EXCEPT ![t].pc = "g_backoff", ![t].error = error]
            /\ semaphore' = semaphore + 1
            /\ UNCHANGED returned
       ELSE EndCall(t, "error")
    /\ UNCHANGED <<max_conversation_history, conversation_contexts, calls, recorded,
                   concurrent>>
    /\ ServiceFrame

GenerateResponse_Retry(t) ==
    /\ task[t].pc = "g_backoff"
    /\ ~Locked(semaphore)
    /\ semaphore' = semaphore - 1
    /\ task' = [task EXCEPT ![t].pc = "g_llm", ![t].attempt = @ + 1, ![t].error = "none"]
    /\ UNCHANGED <<max_conversation_history, conversation_contexts, calls, recorded,
                   returned, concurrent>>
    /\ ServiceFrame

(***************************************************************************)
(* generate_streaming_response: an async generator.  Its body runs only    *)
(* while the consumer asks for the next chunk; it holds the semaphore from *)
(* the first request until it finishes or is closed.                       *)
(***************************************************************************)
Stream_Call(t, cid) ==
    /\ task[t].pc = "idle"
    /\ StartCall(t, cid, "s_llm")
    /\ ServiceFrame

Stream_Open(t) ==
    /\ task[t].pc = "s_llm"
    /\ task' = [task EXCEPT ![t].pc = "s_iter"]
    /\ UNCHANGED <<max_conversation_history, conversation_contexts, semaphore, calls,
                   recorded, returned, concurrent>>
    /\ ServiceFrame

\* A delta with content: accumulated into full_response and yielded.
Stream_Chunk(t, len) ==
    /\ task[t].pc = "s_iter"
    /\ task[t].chunk_count < MaxChunks
    /\ task' = [task EXCEPT
                  ![t].chunk_count = @ + 1,
                  ![t].full_response =
                      Content(Append(@.text, <<task[t].call, task[t].chunk_count + 1>>),
                              @.len + len),
                  ![t].stream =
                      Append(@, StreamingChatChunk("chunk",
                                    <<<<task[t].call, task[t].chunk_count + 1>>>>, FALSE))]
    /\ UNCHANGED <<max_conversation_history, conversation_contexts, semaphore, calls,
                   recorded, returned, concurrent>>
    /\ ServiceFrame

\* The stream is exhausted: the final chunk is yielded (before the update).
Stream_End(t) ==
    /\ task[t].pc = "s_iter"
    /\ task' = [task EXCEPT ![t].pc = "s_final",
                            ![t].stream = Append(@, StreamingChatChunk("chunk_final", <<>>, TRUE))]
    /\ UNCHANGED <<max_conversation_history, conversation_contexts, semaphore, calls,
                   recorded, returned, concurrent>>
    /\ ServiceFrame

\* create() or the iteration raises: the except branch yields an error chunk.
Stream_Fail(t) ==
    /\ task[t].pc \in {"s_llm", "s_iter"}
    /\ task' = [task EXCEPT ![t].pc = "s_error",
                            ![t].stream = Append(@, StreamingChatChunk("chunk_error", <<"Error">>, TRUE))]
    /\ UNCHANGED <<max_conversation_history, conversation_contexts, semaphore, calls,
                   recorded, returned, concurrent>>
    /\ ServiceFrame

\* The consumer asks for a chunk after the final one: the context is updated.
Stream_Resume(t) ==
    /\ task[t].pc = "s_final"
    /\ LET cid == task[t].conversation_id
           upd == UpdateConversationContext(conversation_contexts,
                      max_conversation_history, cid, UserContent(task[t].call),
                      task[t].full_response)
       IN  /\ conversation_contexts' = upd.contexts
           /\ recorded' = Record(cid, upd.appended)
           /\ IF upd.raised
              THEN /\ task' = [task EXCEPT
                                 ![t].pc = "s_error",
                                 ![t].stream = Append(@, StreamingChatChunk("chunk_error",
                                                             <<"Error">>, TRUE))]
                   /\ UNCHANGED <<semaphore, returned>>
              ELSE EndCall(t, "ok")
    /\ UNCHANGED <<max_conversation_history, calls, concurrent>>
    /\ ServiceFrame

\* The consumer asks for a chunk after the error chunk: the generator ends.
Stream_Finish(t) ==
    /\ task[t].pc = "s_error"
    /\ EndCall(t, "error")
    /\ UNCHANGED <<max_conversation_history, conversation_contexts, calls, recorded,
                   concurrent>>
    /\ ServiceFrame

\* The consumer stops at a yielded chunk and the generator is closed
\* (GeneratorExit passes the except clause and leaves `async with`).
Stream_Close(t) ==
    /\ \/ task[t].pc \in {"s_final", "s_error"}
       \/ task[t].pc = "s_iter" /\ task[t].chunk_count > 0
    /\ EndCall(t, "closed")
    /\ UNCHANGED <<max_conversation_history, conversation_contexts, calls, recorded,
                   concurrent>>
    /\ ServiceFrame

(***************************************************************************)
(* clear_conversation_context                                              *)
(***************************************************************************)
\* Mutant: every conversation is dropped.
ClearContext_All(contexts, cid) == <<>>

\* if conversation_id in self._conversation_contexts: del ...[conversation_id]
ClearContext(contexts, cid) ==
    IF cid \in DOMAIN contexts
    THEN Restrict(contexts, DOMAIN contexts \ {cid})
    ELSE contexts

ClearConversationContext(cid) ==
    /\ conversation_contexts' = ClearContext(conversation_contexts, cid)
    /\ recorded' = [recorded EXCEPT ![cid] = <<>>]
    /\ UNCHANGED <<max_conversation_history, semaphore, task, calls, returned, concurrent>>
    /\ ServiceFrame

Next ==
    \/ \E t \in Tasks, cid \in ConvIds : GenerateResponse_Call(t, cid)
    \/ \E t \in Tasks, len \in ReplyLengths : GenerateResponse_Reply(t, len)
    \/ \E t \in Tasks, error \in LlmErrors : GenerateResponse_Error(t, error)
    \/ \E t \in Tasks : GenerateResponse_Retry(t)
    \/ \E t \in Tasks, cid \in ConvIds : Stream_Call(t, cid)
    \/ \E t \in Tasks : Stream_Open(t)
    \/ \E t \in Tasks, len \in ChunkLengths : Stream_Chunk(t, len)
    \/ \E t \in Tasks : Stream_End(t)
    \/ \E t \in Tasks : Stream_Fail(t)
    \/ \E t \in Tasks : Stream_Resume(t)
    \/ \E t \in Tasks : Stream_Finish(t)
    \/ \E t \in Tasks : Stream_Close(t)
    \/ \E cid \in ConvIds : ClearConversationContext(cid)

Spec == Init /\ [][Next]_vars

(***************************************************************************)
(* SpecSem: the rate-limited section alone, with enough concurrent calls   *)
(* to exhaust the semaphore.  A call is known only by its method; what it  *)
(* does inside the section is left out.                                    *)
(***************************************************************************)
Inside == section["generate_response"] + section["generate_streaming_response"]
Waiting == waiting["generate_response"] + waiting["generate_streaming_response"]

SemFrame == UNCHANGED <<service_vars, params_vars, search_vars, rag_vars, api_vars, clear_vars, delete_vars,
        context_vars, seed_vars, cache_vars, alert_vars, metrics_vars>>

\* `async with self._semaphore` with a permit free: the call enters at once.
Sem_Enter(m) ==
    /\ Inside + Waiting < MaxCallers
    /\ ~Locked(semaphore)
    /\ semaphore' = semaphore - 1
    /\ section' = [section EXCEPT ![m] = @ + 1]
    /\ UNCHANGED waiting
    /\ SemFrame

\* `async with self._semaphore` with no permit free: the call blocks in acquire().
Sem_Block(m) ==
    /\ Inside + Waiting < MaxCallers
    /\ Locked(semaphore)
    /\ waiting' = [waiting EXCEPT ![m] = @ + 1]
    /\ UNCHANGED <<semaphore, section>>
    /\ SemFrame

\* A blocked call is woken after a release and takes the permit.
Sem_Wake(m) ==
    /\ waiting[m] > 0
    /\ ~Locked(semaphore)
    /\ semaphore' = semaphore - 1
    /\ waiting' = [waiting EXCEPT ![m] = @ - 1]
    /\ section' = [section EXCEPT ![m] = @ + 1]
    /\ SemFrame

\* A call leaves the section (return, exception or generator end): release().
Sem_Release(m) ==
    /\ section[m] > 0
    /\ semaphore' = semaphore + 1
    /\ section' = [section EXCEPT ![m] = @ - 1]
    /\ UNCHANGED waiting
    /\ SemFrame

NextSem ==
    \/ \E m \in Methods : Sem_Enter(m)
    \/ \E m \in Methods : Sem_Block(m)
    \/ \E m \in Methods : Sem_Wake(m)
    \/ \E m \in Methods : Sem_Release(m)

SpecSem == Init /\ [][NextSem]_vars

(***************************************************************************)
(* SpecParams: how a request's optional temperature and max_tokens reach   *)
(* the LLM call, for every value that ChatRequest validation accepts.      *)
(***************************************************************************)
Temperatures == 0..MaxTemperature
TokenCounts == {1, 2, max_tokens - 1, max_tokens, max_tokens + 1, MaxTokensAllowed}

ChatRequests ==
    [temperature : {None} \cup {Given(v) : v \in Temperatures},
     max_tokens : {None} \cup {Given(v) : v \in TokenCounts}]

\* Python's `x or default`: the default replaces None and every falsy number.
PyOr(x, default) == IF x.given /\ x.value # 0 THEN x.value ELSE default

\* The temperature and max_tokens arguments of client.chat.completions.create.
Completion(method) ==
    [made |-> TRUE, method |-> method,
     temperature |-> PyOr(request.temperature, default_temperature),
     max_tokens |-> PyOr(request.max_tokens, max_tokens)]

ParamsFrame == UNCHANGED <<request, service_vars, semaphore, sem_vars, search_vars, rag_vars, api_vars, clear_vars, delete_vars,
        context_vars, seed_vars, cache_vars, alert_vars, metrics_vars>>

Params_GenerateResponse ==
    /\ ~llm_call.made
    /\ llm_call' = Completion("generate_response")
    /\ ParamsFrame

Params_GenerateStreamingResponse ==
    /\ ~llm_call.made
    /\ llm_call' = Completion("generate_streaming_response")
    /\ ParamsFrame

Params_GenerateRagResponse ==
    /\ ~llm_call.made
    /\ llm_call' = Completion("generate_rag_response")
    /\ ParamsFrame

InitParams ==
    /\ ServiceInit /\ max_conversation_history = MaxHistoryLimit
    /\ SemInit
    /\ SearchIdle
    /\ RagIdle
    /\ ApiIdle
    /\ ClearIdle
    /\ DeleteIdle
    /\ ContextIdle /\ SeedIdle /\ CacheIdle /\ AlertIdle /\ MetricsIdle
    /\ request \in ChatRequests
    /\ llm_call = [made |-> FALSE, method |-> "none", temperature |-> 0, max_tokens |-> 0]

NextParams ==
    \/ Params_GenerateResponse
    \/ Params_GenerateStreamingResponse
    \/ Params_GenerateRagResponse

SpecParams == InitParams /\ [][NextParams]_vars

(***************************************************************************)
(* semantic_search.  The index is an external service: its answer is any   *)
(* sequence of documents, each with an optional "@search.reranker_score"   *)
(* and "@search.score"; the code does not compare the number of documents  *)
(* with the `top` it asked for.                                            *)
(***************************************************************************)
ScoreProfiles ==
    { [reranker_score |-> Given(Points(280)), score |-> None],              \* 2.8 / 4 = 0.7
      [reranker_score |-> None,               score |-> Given(Points(69))], \* 0.69
      [reranker_score |-> Given(Points(450)), score |-> Given(0)],          \* 4.5 / 4 > 1
      [reranker_score |-> Given(Points(300)), score |-> Given(Points(90))], \* max(0.75, 0.9)
      [reranker_score |-> None,               score |-> None] }

IndexAnswers(profiles, most) ==
    UNION { [1..n -> profiles] : n \in 0..most }

\* similarity_score = max(semantic_score / 4.0, vector_score)
Similarity(result) ==
    Max(PyOr(result.reranker_score, 0) \div 4, PyOr(result.score, 0))

\* Mutant: the raw similarity is stored without the cap at 1.0.
SearchResult_Uncapped(id, similarity) ==
    [document_id |-> id, similarity_score |-> similarity]

\* SearchResult(..., similarity_score=min(similarity_score, 1.0))
SearchResult(id, similarity) ==
    [document_id |-> id, similarity_score |-> Min(similarity, One)]

\* The loop over the index's answer: results below the threshold are skipped.
RECURSIVE ProcessResults(_, _, _)
ProcessResults(answer, i, threshold) ==
    IF i > Len(answer) THEN <<>>
    ELSE IF Similarity(answer[i]) < threshold
         THEN ProcessResults(answer, i + 1, threshold)
         ELSE <<SearchResult(i, Similarity(answer[i]))>>
                  \o ProcessResults(answer, i + 1, threshold)

\* list.sort(key=similarity_score, reverse=True): stable, highest score first.
RECURSIVE SortBySimilarity(_)
SortBySimilarity(results) ==
    IF results = <<>> THEN <<>>
    ELSE LET best == CHOOSE i \in 1..Len(results) :
                        /\ \A j \in 1..Len(results) :
                               results[j].similarity_score <= results[i].similarity_score
                        /\ \A j \in 1..(i - 1) :
                               results[j].similarity_score < results[i].similarity_score
             rest == [k \in 1..(Len(results) - 1) |->
                         IF k < best THEN results[k] ELSE results[k + 1]]
         IN  <<results[best]>> \o SortBySimilarity(rest)

\* Mutant: results below the threshold are kept.
SemanticSearch_Unfiltered(answer, threshold) ==
    SortBySimilarity(ProcessResults(answer, 1, 0))

SemanticSearch(answer, threshold) ==
    SortBySimilarity(ProcessResults(answer, 1, threshold))

(***************************************************************************)
(* SpecSearch: semantic_search on its own, for every threshold that        *)
(* SearchQuery validation accepts at its ends and for the 0.7 of RAG.      *)
(***************************************************************************)
Thresholds == {0, Points(70), One}

SearchFrame == UNCHANGED <<service_vars, semaphore, sem_vars, params_vars, rag_vars, api_vars, clear_vars, delete_vars,
        context_vars, seed_vars, cache_vars, alert_vars, metrics_vars>>

\* The embedding and the index answer arrive; the results are returned.
Search_Return(answer) ==
    /\ search_pc = "searching"
    /\ search_pc' = "returned"
    /\ index_answer' = answer
    /\ search_results' = SemanticSearch(answer, query.similarity_threshold)
    /\ UNCHANGED query
    /\ SearchFrame

\* generate_embedding or the index raises: the except clause returns [].
Search_Fail ==
    /\ search_pc = "searching"
    /\ search_pc' = "failed"
    /\ search_results' = <<>>
    /\ UNCHANGED <<query, index_answer>>
    /\ SearchFrame

\* The next query.
Search_Query(threshold) ==
    /\ search_pc # "searching"
    /\ search_pc' = "searching"
    /\ query' = [similarity_threshold |-> threshold, max_results |-> max_retrieved_docs]
    /\ index_answer' = <<>>
    /\ search_results' = <<>>
    /\ SearchFrame

InitSearch ==
    /\ ServiceInit /\ max_conversation_history = MaxHistoryLimit
    /\ SemInit
    /\ ParamsIdle
    /\ SearchIdle
    /\ RagIdle
    /\ ApiIdle
    /\ ClearIdle
    /\ DeleteIdle
    /\ ContextIdle /\ SeedIdle /\ CacheIdle /\ AlertIdle /\ MetricsIdle

NextSearch ==
    \/ \E answer \in IndexAnswers(ScoreProfiles, MaxSearchResults) : Search_Return(answer)
    \/ Search_Fail
    \/ \E threshold \in Thresholds : Search_Query(threshold)

SpecSearch == InitSearch /\ [][NextSearch]_vars

(***************************************************************************)
(* RAGEnhancedAIService.  A text is a sequence of characters; a content    *)
(* of length len whose text is shorter continues with full stops.          *)
(***************************************************************************)
UpperToLower ==
    ("A" :> "a") @@ ("B" :> "b") @@ ("C" :> "c") @@ ("D" :> "d") @@ ("E" :> "e") @@
    ("F" :> "f") @@ ("G" :> "g") @@ ("H" :> "h") @@ ("I" :> "i") @@ ("J" :> "j") @@
    ("K" :> "k") @@ ("L" :> "l") @@ ("M" :> "m") @@ ("N" :> "n") @@ ("O" :> "o") @@
    ("P" :> "p") @@ ("Q" :> "q") @@ ("R" :> "r") @@ ("S" :> "s") @@ ("T" :> "t") @@
    ("U" :> "u") @@ ("V" :> "v") @@ ("W" :> "w") @@ ("X" :> "x") @@ ("Y" :> "y") @@
    ("Z" :> "z")

\* str.lower()
Lower(text) ==
    [i \in 1..Len(text) |->
        IF text[i] \in DOMAIN UpperToLower THEN UpperToLower[text[i]] ELSE text[i]]

\* `keyword in text`
IsSubstring(keyword, text) ==
    \E start \in 1..(Len(text) - Len(keyword) + 1) :
        SubSeq(text, start, start + Len(keyword) - 1) = keyword

career_keywords ==
    <<<<"c", "a", "r", "e", "e", "r">>,
      <<"j", "o", "b">>,
      <<"s", "k", "i", "l", "l">>,
      <<"i", "n", "t", "e", "r", "v", "i", "e", "w">>,
      <<"s", "a", "l", "a", "r", "y">>,
      <<"l", "e", "a", "r", "n", "i", "n", "g">>,
      <<"t", "r", "a", "n", "s", "i", "t", "i", "o", "n">>,
      <<"a", "i", " ", "e", "n", "g", "i", "n", "e", "e", "r">>,
      <<"m", "a", "c", "h", "i", "n", "e", " ", "l", "e", "a", "r", "n", "i", "n", "g">>,
      <<"d", "a", "t", "a", " ", "s", "c", "i", "e", "n", "c", "e">>,
      <<"r", "e", "s", "u", "m", "e">>,
      <<"p", "o", "r", "t", "f", "o", "l", "i", "o">>,
      <<"e", "x", "p", "e", "r", "i", "e", "n", "c", "e">>,
      <<"q", "u", "a", "l", "i", "f", "i", "c", "a", "t", "i", "o", "n">>,
      <<"c", "e", "r", "t", "i", "f", "i", "c", "a", "t", "i", "o", "n">>,
      <<"b", "o", "o", "t", "c", "a", "m", "p">>,
      <<"d", "e", "g", "r", "e", "e">>,
      <<"c", "o", "u", "r", "s", "e">>,
      <<"t", "r", "a", "i", "n", "i", "n", "g">>,
      <<"m", "e", "n", "t", "o", "r">>,
      <<"a", "d", "v", "i", "c", "e">>>>

\* _should_use_rag: any(keyword in query.lower() for keyword in career_keywords)
ShouldUseRag(message) ==
    \E k \in 1..Len(career_keywords) : IsSubstring(career_keywords[k], Lower(message.text))

\* ChatRequest.message: stripped, 1 to 4000 characters.
Text(text) == Content(text, Len(text))
Padded(text, len) == Content(text, len)

RagMessages ==
    { Text(<<"M", "y", " ", "J", "O", "B">>),
      Text(<<"h", "e", "l", "l", "o">>),
      Text(<<"A", "I", " ", "E", "n", "g", "i", "n", "e", "e", "r">>),
      Text(<<"j", "o", " ", "b">>),
      Padded(<<"A", "n", "y", " ", "a", "d", "v", "i", "c", "e">>, query_max_length + 1) }

RagConversationIds == {"none", "c1"}

\* What the index can answer to a RAG query: documents at 0.7 and at 0.9.
RagScoreProfiles ==
    { [reranker_score |-> Given(Points(280)), score |-> None],
      [reranker_score |-> Given(Points(120)), score |-> Given(Points(90))] }

\* The model's reply: its content may be absent (None), short or at the limit.
RagReplyLengths == {0, min_length, max_length}

History(cid) ==
    IF cid \in DOMAIN conversation_history THEN conversation_history[cid] ELSE <<>>

\* len(" ".join([msg.content for msg in messages]))
RECURSIVE SumLengths(_)
SumLengths(messages) ==
    IF messages = <<>> THEN 0
    ELSE Head(messages).content.len + SumLengths(Tail(messages))

JoinedLength(messages) ==
    IF messages = <<>> THEN 0 ELSE SumLengths(messages) + (Len(messages) - 1)

\* SearchQuery(query=..., conversation_context=..., max_results=5,
\* similarity_threshold=0.7): pydantic validates the lengths on construction.
ValidSearchQuery(message, context_length) ==
    /\ message.len >= min_length
    /\ message.len <= query_max_length
    /\ context_length <= context_max_length

(***************************************************************************)
(* Rational numbers, for the confidence score.                             *)
(***************************************************************************)
RECURSIVE GCD(_, _)
GCD(a, b) == IF b = 0 THEN a ELSE GCD(b, a % b)

\* A fraction in lowest terms.
Rat(n, d) == [num |-> n \div GCD(n, d), den |-> d \div GCD(n, d)]
RatAdd(a, b) == Rat(a.num * b.den + b.num * a.den, a.den * b.den)
RatMul(a, b) == Rat(a.num * b.num, a.den * b.den)
RatLeq(a, b) == a.num * b.den <= b.num * a.den
RatEq(a, b) == a.num * b.den = b.num * a.den
RatMin(a, b) == IF RatLeq(a, b) THEN a ELSE b

RECURSIVE SumSimilarity(_)
SumSimilarity(sources) ==
    IF sources = <<>> THEN 0
    ELSE Head(sources).similarity_score + SumSimilarity(Tail(sources))

\* Mutant: the sum of the similarities is not divided by their number.
AvgSimilarity_Sum(sources) == Rat(SumSimilarity(sources), One)

\* sum(s.similarity_score for s in retrieved_sources) / len(retrieved_sources)
AvgSimilarity(sources) == Rat(SumSimilarity(sources), Len(sources) * One)

\* min(0.95, 0.7 + (avg_similarity * 0.25)), or None without sources
ConfidenceScore(sources) ==
    IF sources = <<>> THEN None
    ELSE Given(RatMin(Rat(95, 100),
                      RatAdd(Rat(7, 10), RatMul(AvgSimilarity(sources), Rat(25, 100)))))

\* _build_rag_prompt: one snippet per retrieved source, then the last 6
\* messages of the conversation.
BuildRagPrompt(sources, history) ==
    [kind |-> "augmented", snippets |-> sources, turns |-> SliceLast(history, 6)]

\* The standard conversation flow: the last 10 messages, no snippets.
StandardPrompt(history) ==
    [kind |-> "standard", snippets |-> <<>>, turns |-> SliceLast(history, 10)]

PromptFor(sources, history) ==
    IF sources # <<>> THEN BuildRagPrompt(sources, history) ELSE StandardPrompt(history)

RagFrame == UNCHANGED <<service_vars, semaphore, sem_vars, params_vars, search_vars, api_vars, clear_vars, delete_vars,
        context_vars, seed_vars, cache_vars, alert_vars, metrics_vars>>

RagRaise ==
    [status |-> "raised", knowledge_enhanced |-> FALSE, confidence_score |-> None,
     retrieved_sources |-> <<>>]

\* generate_rag_response is called: the history is read and the message
\* classified.  A career message builds the SearchQuery, which can raise;
\* any other message goes straight to the standard prompt.
Rag_Request(message, cid) ==
    /\ rag.pc = "idle"
    /\ rag_calls < MaxRagCalls
    /\ rag_calls' = rag_calls + 1
    /\ LET history == IF cid = "none" THEN <<>> ELSE History(cid)
           call == [IdleRag EXCEPT !.message = message, !.conversation_id = cid]
       IN  IF ShouldUseRag(message)
           THEN IF ValidSearchQuery(message, JoinedLength(SliceLast(history, 4)))
                THEN /\ rag' = [call EXCEPT !.pc = "searching", !.search_calls = 1]
                     /\ rag_response' = NoResponse
                ELSE /\ rag' = call
                     /\ rag_response' = RagRaise
           ELSE /\ rag' = [call EXCEPT !.pc = "generating",
                                       !.prompt = StandardPrompt(history)]
                /\ rag_response' = NoResponse
    /\ UNCHANGED conversation_history
    /\ RagFrame

\* semantic_search returns (an empty list when it failed inside); the
\* prompt is built from what it returned.
Rag_Retrieved(answer) ==
    /\ rag.pc = "searching"
    /\ LET sources == SemanticSearch(answer, Points(70))
           history == IF rag.conversation_id = "none" THEN <<>>
                      ELSE History(rag.conversation_id)
       IN  rag' = [rag EXCEPT !.pc = "generating",
                              !.retrieved_sources = sources,
                              !.prompt = PromptFor(sources, history)]
    /\ UNCHANGED <<conversation_history, rag_response, rag_calls>>
    /\ RagFrame

\* The history update after the completion; same order as in
\* _update_conversation_context: append, append, trim.
RagUpdateHistory(cid, message, reply) ==
    LET history == History(cid)
        put(list) == [c \in (DOMAIN conversation_history) \cup {cid} |->
                         IF c = cid THEN list ELSE conversation_history[c]]
        withUser == Append(history, ChatMessage("user", message))
        withBoth == Append(withUser, ChatMessage("assistant", reply))
    IN  IF ~ValidContent(message)
        THEN [history |-> put(history), raised |-> TRUE]
        ELSE IF ~ValidContent(reply)
        THEN [history |-> put(withUser), raised |-> TRUE]
        ELSE [history |-> put(IF Len(withBoth) > max_history_messages
                              THEN SliceLast(withBoth, max_history_messages)
                              ELSE withBoth),
              raised |-> FALSE]

\* The completion arrives: confidence, history update, RAGResponse.
Rag_Complete(len) ==
    /\ rag.pc = "generating"
    /\ LET reply == Content(<<"reply", rag_calls>>, len)
           update == RagUpdateHistory(rag.conversation_id, rag.message, reply)
           raised == IF rag.conversation_id = "none" THEN len = 0 ELSE update.raised
       IN  /\ conversation_history' =
                  IF rag.conversation_id = "none" THEN conversation_history
                  ELSE update.history
           /\ rag_response' =
                  IF raised THEN RagRaise
                  ELSE [status |-> "ok",
                        knowledge_enhanced |-> Len(rag.retrieved_sources) > 0,
                        confidence_score |-> ConfidenceScore(rag.retrieved_sources),
                        retrieved_sources |-> rag.retrieved_sources]
    /\ rag' = [rag EXCEPT !.pc = "idle"]
    /\ UNCHANGED rag_calls
    /\ RagFrame

\* client.chat.completions.create raises: logged and raised again.
Rag_ApiError ==
    /\ rag.pc = "generating"
    /\ rag' = [rag EXCEPT !.pc = "idle"]
    /\ rag_response' = RagRaise
    /\ UNCHANGED <<conversation_history, rag_calls>>
    /\ RagFrame

\* if conversation_id in self.conversation_history: del ...[conversation_id]
ClearHistory(history, cid) ==
    IF cid \in DOMAIN history
    THEN [c \in (DOMAIN history) \ {cid} |-> history[c]]
    ELSE history

\* clear_conversation_history
ClearConversationHistory(cid) ==
    /\ rag.pc = "idle"
    /\ cid \in DOMAIN conversation_history
    /\ conversation_history' = ClearHistory(conversation_history, cid)
    /\ UNCHANGED <<rag, rag_response, rag_calls>>
    /\ RagFrame

InitRag ==
    /\ ServiceInit /\ max_conversation_history = MaxHistoryLimit
    /\ SemInit
    /\ ParamsIdle
    /\ SearchIdle
    /\ RagIdle
    /\ ApiIdle
    /\ ClearIdle
    /\ DeleteIdle
    /\ ContextIdle /\ SeedIdle /\ CacheIdle /\ AlertIdle /\ MetricsIdle

NextRag ==
    \/ \E message \in RagMessages, cid \in RagConversationIds : Rag_Request(message, cid)
    \/ \E answer \in IndexAnswers(RagScoreProfiles, MaxIndexResults) : Rag_Retrieved(answer)
    \/ \E len \in RagReplyLengths : Rag_Complete(len)
    \/ Rag_ApiError
    \/ ClearConversationHistory("c1")

SpecRag == InitRag /\ [][NextRag]_vars

(***************************************************************************)
(* POST /chat.  FastAPI validates the body as a ChatRequest and answers    *)
(* 422 itself when it is invalid; only a valid request reaches             *)
(* chat_completion.  The services are taken as already constructed.        *)
(***************************************************************************)
Whitespace == {" ", "\t", "\n"}

RECURSIVE LeadingWhitespace(_)
LeadingWhitespace(text) ==
    IF text # <<>> /\ Head(text) \in Whitespace
    THEN 1 + LeadingWhitespace(Tail(text))
    ELSE 0

RECURSIVE TrailingWhitespace(_)
TrailingWhitespace(text) ==
    IF text # <<>> /\ text[Len(text)] \in Whitespace
    THEN 1 + TrailingWhitespace(SubSeq(text, 1, Len(text) - 1))
    ELSE 0

\* str.strip(): a content longer than its text continues with full stops,
\* so only a content that is all text can lose characters at its end.
Strip(content) ==
    LET left == LeadingWhitespace(content.text)
        afterLeft == SubSeq(content.text, left + 1, Len(content.text))
        right == IF content.len = Len(content.text) THEN TrailingWhitespace(afterLeft) ELSE 0
    IN  Content(SubSeq(afterLeft, 1, Len(afterLeft) - right), content.len - left - right)

\* Mutant: the validator of the message is left out.
ValidChatRequest_Unstripped(body) ==
    /\ body.message.given
    /\ body.message.value.len >= min_length
    /\ body.message.value.len <= max_length
    /\ body.user_id.given
    /\ body.temperature.given =>
           body.temperature.value >= 0 /\ body.temperature.value <= MaxTemperature
    /\ body.max_tokens.given =>
           body.max_tokens.value >= 1 /\ body.max_tokens.value <= MaxTokensAllowed

\* ChatRequest: message (1 to 4000 characters, not only whitespace),
\* user_id (required), temperature (0 to 2) and max_tokens (1 to 4000).
ValidChatRequest(body) ==
    /\ body.message.given
    /\ body.message.value.len >= min_length
    /\ body.message.value.len <= max_length
    /\ Strip(body.message.value).len > 0
    /\ body.user_id.given
    /\ body.temperature.given =>
           body.temperature.value >= 0 /\ body.temperature.value <= MaxTemperature
    /\ body.max_tokens.given =>
           body.max_tokens.value >= 1 /\ body.max_tokens.value <= MaxTokensAllowed

BodyMessages ==
    { Absent(Content(<<>>, 0)),
      Given(Content(<<>>, 0)),
      Given(Text(<<" ", "\t">>)),
      Given(Text(<<"h", "i">>)),
      Given(Text(<<" ", "h", "i", " ">>)),
      Given(Padded(<<"h", "i">>, max_length)),
      Given(Padded(<<"h", "i">>, max_length + 1)) }

Bodies ==
    [message : BodyMessages,
     user_id : {Absent(""), Given("user")},
     conversation_id : {Absent(""), Given("c1")},
     temperature : {None, Given(0 - 1), Given(0), Given(MaxTemperature + 1)},
     max_tokens : {None, Given(0), Given(1)}]

\* The exceptions that generate_response can raise, by class.
ServiceErrors == {"APIError", "RateLimitError", "APITimeoutError", "RetryError"}

\* pydantic's ValidationError is a ValueError.
IsValueError(exception) == exception \in {"ValueError", "ValidationError"}

\* chat_completion's handlers: `except ValueError` answers 400 and
\* `except Exception` answers 500.
ChatCompletionStatus(exception) ==
    IF IsValueError(exception) THEN 400 ELSE 500

ApiFrame ==
    UNCHANGED <<max_conversation_history, semaphore, task, calls, recorded, returned,
                concurrent, sem_vars, params_vars, search_vars, rag_vars, clear_vars,
                delete_vars, context_vars, seed_vars, cache_vars, alert_vars, metrics_vars>>

\* A request arrives.  An invalid body is answered 422 by the framework.
\* With use_rag the handler calls generate_rag_response with keyword
\* arguments the method does not take, which raises TypeError; otherwise it
\* calls generate_response and waits.
Api_PostChat(body, use_rag) ==
    /\ api.pc # "in_service"
    /\ api.requests < MaxRequests
    /\ LET arrived == [api EXCEPT !.body = body, !.use_rag = use_rag,
                                  !.requests = @ + 1, !.raised = "none",
                                  !.conversation_id = "none"]
           cid == IF body.conversation_id.given THEN body.conversation_id.value
                  ELSE "uuid-" \o ToString(api.requests + 1)
       IN  IF ~ValidChatRequest(body)
           THEN api' = [arrived EXCEPT !.pc = "done", !.status = 422]
           ELSE IF use_rag
           THEN api' = [arrived EXCEPT !.pc = "done", !.conversation_id = cid,
                                       !.raised = "TypeError",
                                       !.status = ChatCompletionStatus("TypeError")]
           ELSE api' = [arrived EXCEPT !.pc = "in_service", !.conversation_id = cid,
                                       !.status = 0, !.service_calls = @ + 1]
    /\ UNCHANGED conversation_contexts
    /\ ApiFrame

\* generate_response gets the completion: an empty reply raises ValueError,
\* the context update can raise ValidationError, otherwise the ChatResponse
\* is returned and answered with 200.
Api_ServiceReply(len) ==
    /\ api.pc = "in_service"
    /\ LET ai_message == Content(ReplyText(api.requests), len)
           upd == UpdateConversationContext(conversation_contexts,
                      max_conversation_history, api.conversation_id,
                      Strip(api.body.message.value), ai_message)
           exception == IF len = 0 THEN "ValueError"
                        ELSE IF upd.raised THEN "ValidationError" ELSE "none"
       IN  /\ conversation_contexts' =
                  IF len = 0 THEN conversation_contexts ELSE upd.contexts
           /\ api' = [api EXCEPT !.pc = "done", !.raised = exception,
                                 !.status = IF exception = "none" THEN 200
                                            ELSE ChatCompletionStatus(exception)]
    /\ ApiFrame

\* generate_response raises an error of the OpenAI client, or tenacity's
\* RetryError after the third failed attempt.
Api_ServiceError(exception) ==
    /\ api.pc = "in_service"
    /\ api' = [api EXCEPT !.pc = "done", !.raised = exception,
                          !.status = ChatCompletionStatus(exception)]
    /\ UNCHANGED conversation_contexts
    /\ ApiFrame

InitApi ==
    /\ ServiceInit /\ max_conversation_history = MaxHistoryLimit
    /\ SemInit
    /\ ParamsIdle
    /\ SearchIdle
    /\ RagIdle
    /\ ApiIdle
    /\ ClearIdle
    /\ DeleteIdle
    /\ ContextIdle /\ SeedIdle /\ CacheIdle /\ AlertIdle /\ MetricsIdle

NextApi ==
    \/ \E body \in Bodies, use_rag \in BOOLEAN : Api_PostChat(body, use_rag)
    \/ \E len \in ReplyLengths : Api_ServiceReply(len)
    \/ \E exception \in ServiceErrors : Api_ServiceError(exception)

SpecApi == InitApi /\ [][NextApi]_vars

(***************************************************************************)
(* SpecClear: the two clearing methods, called on stores that completed    *)
(* exchanges have filled.  Each clearing call is recorded with the store   *)
(* it found and the store it left.                                         *)
(***************************************************************************)
ClearFrame ==
    UNCHANGED <<max_conversation_history, semaphore, task, returned, concurrent,
                sem_vars, params_vars, search_vars, rag, rag_response, api_vars, delete_vars,
                context_vars, seed_vars, cache_vars, alert_vars, metrics_vars>>

\* A generate_response call runs to its end and stores its exchange.
Clear_Exchange(cid, len) ==
    /\ calls < MaxCalls
    /\ calls' = calls + 1
    /\ LET upd == UpdateConversationContext(conversation_contexts,
                      max_conversation_history, cid, UserContent(calls + 1),
                      Content(ReplyText(calls + 1), len))
       IN  /\ conversation_contexts' = upd.contexts
           /\ recorded' = Record(cid, upd.appended)
    /\ UNCHANGED <<conversation_history, rag_calls, clear_call>>
    /\ ClearFrame

\* A generate_rag_response call runs to its end and stores its exchange.
Clear_RagExchange(cid, len) ==
    /\ rag_calls < MaxRagCalls
    /\ rag_calls' = rag_calls + 1
    /\ conversation_history' =
           RagUpdateHistory(cid, UserContent(rag_calls + 1),
                            Content(ReplyText(rag_calls + 1), len)).history
    /\ UNCHANGED <<conversation_contexts, calls, recorded, clear_call>>
    /\ ClearFrame

\* AzureOpenAIService.clear_conversation_context(cid)
Clear_Context(cid) ==
    /\ conversation_contexts' = ClearContext(conversation_contexts, cid)
    /\ recorded' = [recorded EXCEPT ![cid] = <<>>]
    /\ clear_call' = [service |-> "ai", conversation_id |-> cid,
                      before |-> conversation_contexts,
                      after |-> conversation_contexts']
    /\ UNCHANGED <<conversation_history, calls, rag_calls>>
    /\ ClearFrame

\* RAGEnhancedAIService.clear_conversation_history(cid)
Clear_History(cid) ==
    /\ conversation_history' = ClearHistory(conversation_history, cid)
    /\ clear_call' = [service |-> "rag", conversation_id |-> cid,
                      before |-> conversation_history,
                      after |-> conversation_history']
    /\ UNCHANGED <<conversation_contexts, calls, recorded, rag_calls>>
    /\ ClearFrame

InitClear ==
    /\ ServiceInit /\ max_conversation_history = MaxHistoryLimit
    /\ SemInit
    /\ ParamsIdle
    /\ SearchIdle
    /\ RagIdle
    /\ ApiIdle
    /\ ClearIdle
    /\ DeleteIdle
    /\ ContextIdle /\ SeedIdle /\ CacheIdle /\ AlertIdle /\ MetricsIdle

NextClear ==
    \/ \E cid \in ConvIds, len \in ChunkLengths : Clear_Exchange(cid, len)
    \/ \E cid \in ConvIds, len \in ChunkLengths : Clear_RagExchange(cid, len)
    \/ \E cid \in ConvIds : Clear_Context(cid)
    \/ \E cid \in ConvIds : Clear_History(cid)

SpecClear == InitClear /\ [][NextClear]_vars

(***************************************************************************)
(* SpecDelete: DELETE /conversations/{id} next to generate_response calls. *)
(* The handler only queues clear_context as a background task and answers; *)
(* the task runs after the answer was sent, between the steps of the calls *)
(* in flight.                                                              *)
(***************************************************************************)
DeleteFrame ==
    UNCHANGED <<max_conversation_history, semaphore, task, calls, returned, concurrent,
                sem_vars, params_vars, search_vars, rag_vars, api_vars, clear_vars,
                context_vars, seed_vars, cache_vars, alert_vars, metrics_vars>>

\* clear_conversation: background_tasks.add_task(clear_context), then the
\* answer "will be cleared".  accepted_at is the number of calls submitted
\* before the request was accepted.
Delete_Accept(cid) ==
    /\ deletion[cid].state # "pending"
    /\ deletion[cid].count < MaxDeletes
    /\ deletion' = [deletion EXCEPT ![cid] = [state |-> "pending", accepted_at |-> calls,
                                              count |-> @.count + 1]]
    /\ UNCHANGED <<conversation_contexts, recorded>>
    /\ DeleteFrame

\* The background task: ai_service.clear_conversation_context(conversation_id)
Delete_Run(cid) ==
    /\ deletion[cid].state = "pending"
    /\ conversation_contexts' = ClearContext(conversation_contexts, cid)
    /\ recorded' = [recorded EXCEPT ![cid] = <<>>]
    /\ deletion' = [deletion EXCEPT ![cid].state = "cleared"]
    /\ DeleteFrame

InitDelete ==
    /\ ServiceInit /\ max_conversation_history = MaxHistoryLimit
    /\ SemInit
    /\ ParamsIdle
    /\ SearchIdle
    /\ RagIdle
    /\ ApiIdle
    /\ ClearIdle
    /\ DeleteIdle
    /\ ContextIdle /\ SeedIdle /\ CacheIdle /\ AlertIdle /\ MetricsIdle

NextDelete ==
    \/ \E t \in Tasks, cid \in ConvIds : GenerateResponse_Call(t, cid)
    \/ \E t \in Tasks, len \in ReplyLengths : GenerateResponse_Reply(t, len)
    \/ \E t \in Tasks, error \in LlmErrors : GenerateResponse_Error(t, error)
    \/ \E t \in Tasks : GenerateResponse_Retry(t)
    \/ \E cid \in ConvIds : Delete_Accept(cid)
    \/ \E cid \in ConvIds : Delete_Run(cid)

SpecDelete == InitDelete /\ [][NextDelete]_vars

(***************************************************************************)
(* SpecContext: the message list that generate_response sends to the LLM,  *)
(* under the default max_conversation_history, for conversations that grow *)
(* past the 10 recent messages taken into the list.                        *)
(***************************************************************************)
system_prompt == Content(<<"system_prompt">>, max_length)

\* Mutant: the oldest messages are taken instead of the most recent ones.
BuildConversationContext_Oldest(contexts, cid, current_message) ==
    LET history == IF cid \in DOMAIN contexts THEN contexts[cid] ELSE <<>>
        recent_history == SubSeq(history, 1, Min(Len(history), recent_history_length))
    IN  <<ChatMessage("system", system_prompt)>>
            \o recent_history
            \o <<ChatMessage("user", current_message)>>

\* _build_conversation_context: the system prompt, history[-10:] when the
\* history is longer than 10 and the whole history otherwise, then the
\* current message.
BuildConversationContext(contexts, cid, current_message) ==
    LET history == IF cid \in DOMAIN contexts THEN contexts[cid] ELSE <<>>
        recent_history == IF Len(history) > recent_history_length
                          THEN SliceLast(history, recent_history_length)
                          ELSE history
    IN  <<ChatMessage("system", system_prompt)>>
            \o recent_history
            \o <<ChatMessage("user", current_message)>>

ContextFrame ==
    UNCHANGED <<max_conversation_history, semaphore, task, returned, concurrent,
                sem_vars, params_vars, search_vars, rag_vars, api_vars, clear_vars,
                delete_vars, seed_vars, cache_vars, alert_vars, metrics_vars>>

\* generate_response is called: the messages are built and sent.
Context_Call(cid) ==
    /\ sent.pc = "idle"
    /\ calls < MaxExchanges
    /\ calls' = calls + 1
    /\ sent' = [pc |-> "llm", conversation_id |-> cid,
                messages |-> BuildConversationContext(conversation_contexts, cid,
                                                      UserContent(calls + 1))]
    /\ UNCHANGED <<conversation_contexts, recorded>>
    /\ ContextFrame

\* The reply arrives and the exchange is stored.
Context_Reply(len) ==
    /\ sent.pc = "llm"
    /\ LET upd == UpdateConversationContext(conversation_contexts,
                      max_conversation_history, sent.conversation_id,
                      UserContent(calls), Content(ReplyText(calls), len))
       IN  /\ conversation_contexts' = upd.contexts
           /\ recorded' = Record(sent.conversation_id, upd.appended)
    /\ sent' = [sent EXCEPT !.pc = "idle"]
    /\ UNCHANGED calls
    /\ ContextFrame

\* The LLM request fails for good: nothing is stored.
Context_Error ==
    /\ sent.pc = "llm"
    /\ sent' = [sent EXCEPT !.pc = "idle"]
    /\ UNCHANGED <<conversation_contexts, recorded, calls>>
    /\ ContextFrame

InitContext ==
    /\ max_conversation_history = default_max_conversation_history
    /\ ServiceStart
    /\ SemInit
    /\ ParamsIdle
    /\ SearchIdle
    /\ RagIdle
    /\ ApiIdle
    /\ ClearIdle
    /\ DeleteIdle
    /\ ContextIdle /\ SeedIdle /\ CacheIdle /\ AlertIdle /\ MetricsIdle

NextContext ==
    \/ \E cid \in ConvIds : Context_Call(cid)
    \/ \E len \in ChunkLengths : Context_Reply(len)
    \/ Context_Error

SpecContext == InitContext /\ [][NextContext]_vars

(***************************************************************************)
(* SpecSeed: KnowledgeBaseSeeder.seed_knowledge_base.  It hands the sample *)
(* documents to AzureCognitiveSearchService.index_documents_batch and      *)
(* answers from the status field of the IndexingStatus it gets back.       *)
(* Documents are numbered 1..sample_documents; error_messages is kept as   *)
(* the number of messages; `indexed` records the documents the index       *)
(* accepted (result.succeeded).                                            *)
(***************************************************************************)
SampleDocuments == 1..sample_documents

\* documents[i : i + batch_size], as the number of its last document
BatchEnd(start) == Min(start + batch_size - 1, sample_documents)

SeqToSet(s) == {s[k] : k \in 1..Len(s)}

\* `if indexing_status.status == "completed": return True` else `return False`
SeedingResult(status) ==
    IF status.status = "completed" THEN "True" ELSE "False"

SeedFrame == UNCHANGED <<service_vars, semaphore, sem_vars, params_vars, search_vars, rag_vars,
                         api_vars, clear_vars, delete_vars, context_vars,
        cache_vars, alert_vars, metrics_vars>>

\* The end of one pass of the batch loop: documents_processed grows by
\* len(batch); after the last batch the status becomes "completed".
BatchDone(s, status) ==
    LET last == BatchEnd(s.batch_start)
        processed == [status EXCEPT !.documents_processed = @ + (last - s.batch_start + 1)]
    IN  IF last < sample_documents
        THEN [s EXCEPT !.batch_start = last + 1, !.document = last + 1,
                       !.batch_documents = <<>>, !.status = processed]
        ELSE [s EXCEPT !.pc = "done", !.batch_documents = <<>>,
                       !.status = [processed EXCEPT !.status = "completed"]]

\* seed_knowledge_base is called: get_sample_documents, then
\* index_documents_batch creates its IndexingStatus (status "running").
Seed_Call ==
    /\ seed.pc = "idle"
    /\ seed' = [seed EXCEPT !.pc = "embedding", !.batch_start = 1, !.document = 1,
                            !.batch_documents = <<>>,
                            !.status = [NoStatus EXCEPT !.status = "running"]]
    /\ SeedFrame

\* One document of the batch: generate_embedding either returns, and the
\* document joins batch_documents, or raises, which the inner handler counts.
Index_Embed(embedded) ==
    /\ seed.pc = "embedding"
    /\ seed.document <= BatchEnd(seed.batch_start)
    /\ seed' = IF embedded
               THEN [seed EXCEPT !.document = @ + 1,
                                 !.batch_documents = Append(@, seed.document)]
               ELSE [seed EXCEPT !.document = @ + 1,
                                 !.status.documents_failed = @ + 1,
                                 !.status.error_messages = @ + 1]
    /\ SeedFrame

\* upload_documents returns one result per document; those with
\* result.succeeded are in the index, every other one is counted as failed.
Index_Upload(succeeded) ==
    /\ seed.pc = "embedding"
    /\ seed.document > BatchEnd(seed.batch_start)
    /\ seed.batch_documents # <<>>
    /\ succeeded \subseteq SeqToSet(seed.batch_documents)
    /\ LET failed == Len(seed.batch_documents) - Cardinality(succeeded)
           status == [seed.status EXCEPT !.documents_successful = @ + Cardinality(succeeded),
                                         !.documents_failed = @ + failed,
                                         !.error_messages = @ + failed]
       IN  seed' = BatchDone([seed EXCEPT !.indexed = @ \union succeeded], status)
    /\ SeedFrame

\* upload_documents raises: the whole batch is counted as failed, with one message.
Index_UploadError ==
    /\ seed.pc = "embedding"
    /\ seed.document > BatchEnd(seed.batch_start)
    /\ seed.batch_documents # <<>>
    /\ LET status == [seed.status EXCEPT !.documents_failed = @ + Len(seed.batch_documents),
                                         !.error_messages = @ + 1]
       IN  seed' = BatchDone(seed, status)
    /\ SeedFrame

\* `if batch_documents:` is false, no embedding of the batch succeeded: nothing is uploaded.
Index_NoUpload ==
    /\ seed.pc = "embedding"
    /\ seed.document > BatchEnd(seed.batch_start)
    /\ seed.batch_documents = <<>>
    /\ seed' = BatchDone(seed, seed.status)
    /\ SeedFrame

\* An exception that escapes the handlers inside the loop reaches the outer
\* handler: the status becomes "failed", with one more message.
Index_OperationFailed ==
    /\ seed.pc = "embedding"
    /\ seed' = [seed EXCEPT !.pc = "done",
                            !.status.status = "failed",
                            !.status.error_messages = @ + 1]
    /\ SeedFrame

\* index_documents_batch returned its status: seed_knowledge_base answers.
Seed_Return ==
    /\ seed.pc = "done"
    /\ seed' = [seed EXCEPT !.pc = "returned", !.result = SeedingResult(seed.status)]
    /\ SeedFrame

InitSeed ==
    /\ ServiceInit /\ max_conversation_history = MaxHistoryLimit
    /\ SemInit
    /\ ParamsIdle
    /\ SearchIdle
    /\ RagIdle
    /\ ApiIdle
    /\ ClearIdle
    /\ DeleteIdle
    /\ ContextIdle
    /\ SeedIdle /\ CacheIdle /\ AlertIdle /\ MetricsIdle

NextSeed ==
    \/ Seed_Call
    \/ \E embedded \in BOOLEAN : Index_Embed(embedded)
    \/ \E succeeded \in SUBSET SampleDocuments : Index_Upload(succeeded)
    \/ Index_UploadError
    \/ Index_NoUpload
    \/ Index_OperationFailed
    \/ Seed_Return

SpecSeed == InitSeed /\ [][NextSeed]_vars

(***************************************************************************)
(* SpecCache: SimpleResponseCache.  Every method body runs inside          *)
(* `with self._lock`, so each call is one step whichever thread makes it.  *)
(* self._cache is a dict: its entries are kept in insertion order, which   *)
(* is the order min() scans them in.  hashlib.md5 is taken as injective:   *)
(* the key is the content it digests.                                      *)
(***************************************************************************)
CacheSizes == 0..MaxCacheSize
TtlValues == {1}
CacheMessages == { <<"H", "i">>, <<" ", "h", "i", " ">>, <<"y", "o">> }
CacheResponses == {"r1", "r2"}

\* message.lower().strip()
Normalised(message) == Strip(Text(Lower(message))).text

\* Mutant: the key ignores use_rag.
GenerateKey_NoFlag(message, use_rag) ==
    Normalised(message) \o <<"_", "r", "a", "g", "_">>

\* _generate_key: f"{message.lower().strip()}_rag_{use_rag}"
GenerateKey(message, use_rag) ==
    Normalised(message) \o <<"_", "r", "a", "g", "_">>
        \o (IF use_rag THEN <<"T", "r", "u", "e">> ELSE <<"F", "a", "l", "s", "e">>)

Entry(key, response, timestamp) == [key |-> key, response |-> response, timestamp |-> timestamp]

\* self._cache[key], or no entry
Lookup(entries, key) ==
    IF \E i \in 1..Len(entries) : entries[i].key = key
    THEN entries[CHOOSE i \in 1..Len(entries) : entries[i].key = key]
    ELSE NoEntry

\* del self._cache[key]
Delete(entries, key) == SelectSeq(entries, LAMBDA e : e.key # key)

\* Mutant: the newest entry is chosen.
OldestIndex_Newest(entries) ==
    CHOOSE i \in 1..Len(entries) :
        \A j \in 1..Len(entries) :
            /\ entries[i].timestamp >= entries[j].timestamp
            /\ (entries[i].timestamp = entries[j].timestamp => i <= j)

\* min(self._cache.keys(), key=lambda k: self._cache[k][1]): the first of
\* the entries with the smallest timestamp
OldestIndex(entries) ==
    CHOOSE i \in 1..Len(entries) :
        \A j \in 1..Len(entries) :
            /\ entries[i].timestamp <= entries[j].timestamp
            /\ (entries[i].timestamp = entries[j].timestamp => i <= j)

\* Mutant: nothing is removed.
MakeRoom_Never(entries, size) == entries

\* `if len(self._cache) >= self.max_size:` the oldest entry is deleted
MakeRoom(entries, size) ==
    IF Len(entries) >= size /\ entries # <<>>
    THEN Delete(entries, entries[OldestIndex(entries)].key)
    ELSE entries

\* self._cache[key] = (response, time.time()): an existing key keeps its place
Store(entries, entry) ==
    IF \E i \in 1..Len(entries) : entries[i].key = entry.key
    THEN [i \in 1..Len(entries) |-> IF entries[i].key = entry.key THEN entry ELSE entries[i]]
    ELSE Append(entries, entry)

CacheFrame == UNCHANGED <<service_vars, semaphore, sem_vars, params_vars, search_vars, rag_vars,
                          api_vars, clear_vars, delete_vars, context_vars, seed_vars,
        alert_vars, metrics_vars>>

\* get(message, use_rag)
Cache_Get(message, use_rag) ==
    /\ cache_call.n < MaxCacheCalls
    /\ LET key == GenerateKey(message, use_rag)
           found == Lookup(cache, key)
           expired == found # NoEntry /\ clock - found.timestamp > ttl_seconds
       IN  /\ cache' = IF expired THEN Delete(cache, key) ELSE cache
           /\ cache_call' = [op |-> "get", message |-> message, use_rag |-> use_rag,
                             at |-> clock, found |-> found,
                             result |-> IF found = NoEntry \/ expired THEN "None"
                                        ELSE found.response,
                             removed |-> IF expired THEN <<found>> ELSE <<>>,
                             n |-> cache_call.n + 1]
    /\ UNCHANGED <<max_size, ttl_seconds, clock, last_set>>
    /\ CacheFrame

\* set(message, response, use_rag).  In a cache of max_size <= 0 that is
\* empty, min() of no keys raises ValueError and nothing is stored.
Cache_Set(message, response, use_rag) ==
    /\ cache_call.n < MaxCacheCalls
    /\ LET key == GenerateKey(message, use_rag)
           raises == Len(cache) >= max_size /\ cache = <<>>
           room == MakeRoom(cache, max_size)
           removed == IF Len(room) < Len(cache) THEN <<cache[OldestIndex(cache)]>> ELSE <<>>
           stored == <<Normalised(message), use_rag>>
       IN  /\ cache' = IF raises THEN cache ELSE Store(room, Entry(key, response, clock))
           /\ cache_call' = [op |-> "set", message |-> message, use_rag |-> use_rag,
                             at |-> clock, found |-> Lookup(cache, key),
                             result |-> IF raises THEN "ValueError" ELSE "None",
                             removed |-> IF raises THEN <<>> ELSE removed,
                             n |-> cache_call.n + 1]
           /\ last_set' = IF raises THEN last_set
                          ELSE [k \in DOMAIN last_set \union {stored} |->
                                    IF k = stored THEN [response |-> response, at |-> clock]
                                    ELSE last_set[k]]
    /\ UNCHANGED <<max_size, ttl_seconds, clock>>
    /\ CacheFrame

\* clear()
Cache_Clear ==
    /\ cache_call.n < MaxCacheCalls
    /\ cache # <<>>
    /\ cache' = <<>>
    /\ cache_call' = [NoCall EXCEPT !.op = "clear", !.at = clock, !.removed = cache,
                                    !.n = cache_call.n + 1]
    /\ UNCHANGED <<max_size, ttl_seconds, clock, last_set>>
    /\ CacheFrame

\* time passes
Cache_Tick ==
    /\ clock < MaxClock
    /\ clock' = clock + 1
    /\ UNCHANGED <<max_size, ttl_seconds, cache, cache_call, last_set>>
    /\ CacheFrame

InitCache ==
    /\ ServiceInit /\ max_conversation_history = MaxHistoryLimit
    /\ SemInit
    /\ ParamsIdle
    /\ SearchIdle
    /\ RagIdle
    /\ ApiIdle
    /\ ClearIdle
    /\ DeleteIdle
    /\ ContextIdle
    /\ SeedIdle
    /\ max_size \in CacheSizes
    /\ ttl_seconds \in TtlValues
    /\ cache = <<>>
    /\ clock = 0
    /\ cache_call = NoCall
    /\ last_set = <<>>
    /\ AlertIdle
    /\ MetricsIdle

NextCache ==
    \/ \E message \in CacheMessages, use_rag \in BOOLEAN : Cache_Get(message, use_rag)
    \/ \E message \in CacheMessages, response \in CacheResponses, use_rag \in BOOLEAN :
            Cache_Set(message, response, use_rag)
    \/ Cache_Clear
    \/ Cache_Tick

SpecCache == InitCache /\ [][NextCache]_vars

(***************************************************************************)
(* SpecAlerts: MonitoringAlertsService.  The loop checks every rule        *)
(* against the current metrics, then sleeps.  Time is in seconds.  The     *)
(* rules are the two default rules on error_rate_percentage; one           *)
(* notification handler is registered.  acknowledge_alert is synchronous   *)
(* and can run wherever the loop awaits: between two checks and between    *)
(* the evaluation of two rules.                                            *)
(***************************************************************************)
AlertRule(name, metric_name, threshold, comparison, severity, duration_minutes) ==
    [name |-> name, metric_name |-> metric_name, threshold |-> threshold,
     comparison |-> comparison, severity |-> severity,
     duration_minutes |-> duration_minutes]

\* _setup_default_alert_rules: high_error_rate and critical_error_rate
alert_rules ==
    << AlertRule("high_error_rate", "error_rate_percentage", 5, "gt", "warning", 2),
       AlertRule("critical_error_rate", "error_rate_percentage", 15, "gt", "critical", 1) >>

\* values of error_rate_percentage: no rule, the warning rule, both rules breached
MetricValues == {0, 10, 20}

\* time from one check to the next
Elapsed == {check_interval, backoff_interval}

\* _check_threshold
CheckThreshold(value, threshold, comparison) ==
    CASE comparison = "gt" -> value > threshold
      [] comparison = "gte" -> value >= threshold
      [] comparison = "lt" -> value < threshold
      [] comparison = "lte" -> value <= threshold
      [] comparison = "eq" -> value = threshold
      [] OTHER -> FALSE

\* alert_id = f"{rule.name}_{rule.metric_name}"
AlertId(rule) == rule.name \o "_" \o rule.metric_name

AlertIds == {AlertId(alert_rules[i]) : i \in 1..Len(alert_rules)}

\* Alert(...): `notified` is the attribute _notified; `seen_clear` records
\* that a check found the rule not breached while the alert was tracked.
Alert(rule, value, now) ==
    [id |-> AlertId(rule), rule |-> rule.name, current_value |-> value, status |-> "active",
     fired_at |-> now, resolved_at |-> 0, notified |-> FALSE, seen_clear |-> FALSE]

\* Mutant: every rule fires on detection.
FiresOnDetection_Always(rule) == TRUE

\* `if rule.severity == AlertSeverity.CRITICAL: await self._fire_alert(alert)`
FiresOnDetection(rule) == rule.severity = "critical"

\* _fire_alert: the handler is called with the alert
Notify(alert, now) ==
    Append(notifications, [id |-> alert.id, rule |-> alert.rule, fired_at |-> alert.fired_at,
                           at |-> now, seen_clear |-> alert.seen_clear])

Put(alerts, alert) ==
    [id \in DOMAIN alerts \union {alert.id} |-> IF id = alert.id THEN alert ELSE alerts[id]]

Remove(alerts, alert_id) == [id \in DOMAIN alerts \ {alert_id} |-> alerts[id]]

AlertFrame == UNCHANGED <<service_vars, semaphore, sem_vars, params_vars, search_vars, rag_vars,
                          api_vars, clear_vars, delete_vars, context_vars, seed_vars, cache_vars,
        metrics_vars>>

\* The loop wakes up: _check_alert_rules reads the metrics.
Alerts_Check(value, elapsed) ==
    /\ monitor.pc = "sleeping"
    /\ monitor.checks < MaxChecks
    /\ monitor' = [pc |-> "checking", rule |-> 1, utcnow |-> monitor.utcnow + elapsed,
                   metric_value |-> value, checks |-> monitor.checks + 1]
    /\ UNCHANGED <<active_alerts, alert_history, notifications>>
    /\ AlertFrame

\* A check without metrics (reading them failed, or _calculate_derived_metrics
\* returned {}): no rule is evaluated.
Alerts_CheckWithoutMetrics(elapsed) ==
    /\ monitor.pc = "sleeping"
    /\ monitor.checks < MaxChecks
    /\ monitor' = [monitor EXCEPT !.utcnow = @ + elapsed, !.checks = @ + 1]
    /\ UNCHANGED <<active_alerts, alert_history, notifications>>
    /\ AlertFrame

\* _evaluate_rule for the next rule of the check
Alerts_EvaluateRule ==
    /\ monitor.pc = "checking"
    /\ LET rule == alert_rules[monitor.rule]
           now == monitor.utcnow
           metric_value == monitor.metric_value
           threshold_breached == CheckThreshold(metric_value, rule.threshold, rule.comparison)
           alert_id == AlertId(rule)
           exists == alert_id \in DOMAIN active_alerts
           created == Alert(rule, metric_value, now)
           updated == [active_alerts[alert_id] EXCEPT !.current_value = metric_value]
           due == now - updated.fired_at >= rule.duration_minutes * 60
           fires == due /\ updated.status = "active" /\ ~updated.notified
       IN  /\ IF threshold_breached /\ ~exists
              THEN /\ active_alerts' = Put(active_alerts, created)
                   /\ notifications' = IF FiresOnDetection(rule)
                                       THEN Notify(created, now) ELSE notifications
                   /\ UNCHANGED alert_history
              ELSE IF threshold_breached
              THEN /\ active_alerts' =
                        Put(active_alerts, IF fires THEN [updated EXCEPT !.notified = TRUE]
                                           ELSE updated)
                   /\ notifications' = IF fires THEN Notify(updated, now) ELSE notifications
                   /\ UNCHANGED alert_history
              ELSE IF exists /\ active_alerts[alert_id].status = "active"
              THEN /\ alert_history' =
                        SliceLast(Append(alert_history,
                                         [active_alerts[alert_id] EXCEPT
                                              !.status = "resolved", !.resolved_at = now]),
                                  alert_history_limit)
                   /\ active_alerts' = Remove(active_alerts, alert_id)
                   /\ UNCHANGED notifications
              ELSE /\ active_alerts' =
                        IF exists
                        THEN Put(active_alerts,
                                 [active_alerts[alert_id] EXCEPT !.seen_clear = TRUE])
                        ELSE active_alerts
                   /\ UNCHANGED <<alert_history, notifications>>
           /\ monitor' = IF monitor.rule < Len(alert_rules)
                         THEN [monitor EXCEPT !.rule = @ + 1]
                         ELSE [monitor EXCEPT !.pc = "sleeping", !.rule = 0]
    /\ AlertFrame

\* acknowledge_alert(alert_id, acknowledged_by)
Alerts_Acknowledge(alert_id) ==
    /\ alert_id \in DOMAIN active_alerts
    /\ active_alerts[alert_id].status # "acknowledged"
    /\ active_alerts' = Put(active_alerts,
                            [active_alerts[alert_id] EXCEPT !.status = "acknowledged"])
    /\ UNCHANGED <<alert_history, notifications, monitor>>
    /\ AlertFrame

InitAlerts ==
    /\ ServiceInit /\ max_conversation_history = MaxHistoryLimit
    /\ SemInit
    /\ ParamsIdle
    /\ SearchIdle
    /\ RagIdle
    /\ ApiIdle
    /\ ClearIdle
    /\ DeleteIdle
    /\ ContextIdle
    /\ SeedIdle
    /\ CacheIdle
    /\ AlertIdle /\ MetricsIdle

NextAlerts ==
    \/ \E value \in MetricValues, elapsed \in Elapsed : Alerts_Check(value, elapsed)
    \/ \E elapsed \in Elapsed : Alerts_CheckWithoutMetrics(elapsed)
    \/ Alerts_EvaluateRule
    \/ \E alert_id \in AlertIds : Alerts_Acknowledge(alert_id)

SpecAlerts == InitAlerts /\ [][NextAlerts]_vars

(***************************************************************************)
(* SpecMetrics: the counters behind the alerting rates.  A counter key is  *)
(* the metric name with its tags (_make_key); a name is a sequence of      *)
(* tokens, so that `"errors_total" in name` can be asked of it.  Every     *)
(* request goes through MonitoringMiddleware.dispatch, inside              *)
(* MonitoringService.trace_request.                                        *)
(***************************************************************************)
chat_requests_total == <<"chat_requests_total">>
errors_total == <<"errors_total">>
operation_errors_total == <<"operation_", "errors_total">>

\* _make_key(name, tags)
MakeKey(name, tags) == [name |-> name, tags |-> tags]

\* increment_counter: self.counters[key] += value
IncrementCounter(all, key) ==
    [k \in DOMAIN all \union {key} |->
        IF k = key THEN (IF k \in DOMAIN all THEN all[k] ELSE 0) + 1 ELSE all[k]]

\* record_chat_request: the request counter
RecordChatRequest(all, status) ==
    IncrementCounter(all, MakeKey(chat_requests_total, status))

\* record_error: the error counter
RecordError(all, error_type) ==
    IncrementCounter(all, MakeKey(errors_total, error_type))

\* trace_request, `except Exception`: the operation error counter
TraceRequestError(all, error_type) ==
    IncrementCounter(all, MakeKey(operation_errors_total, error_type))

RECURSIVE SumCounters(_, _, _)
\* sum(count for name, count in counters.items() if part in str(name))
SumCounters(all, keys, part) ==
    IF keys = {} THEN 0
    ELSE LET k == CHOOSE x \in keys : TRUE
         IN  (IF IsSubstring(part, k.name) THEN all[k] ELSE 0)
                 + SumCounters(all, keys \ {k}, part)

RatSub(a, b) == [num |-> a.num * b.den - b.num * a.den, den |-> a.den * b.den]

\* _calculate_derived_metrics: error rate and success rate
CalculateDerivedMetrics(all) ==
    LET total_requests == SumCounters(all, DOMAIN all, chat_requests_total)
        errors == SumCounters(all, DOMAIN all, errors_total)
        error_rate == IF total_requests > 0 THEN Rat(errors * 100, total_requests)
                      ELSE Rat(0, 1)
    IN  [calculated |-> TRUE, error_rate_percentage |-> error_rate,
         success_rate_percentage |-> RatSub(Rat(100, 1), error_rate),
         total_requests |-> total_requests, total_errors |-> errors]

Recorded == SumCounters(counters, DOMAIN counters, <<"chat_requests_total">>)
                + SumCounters(counters, DOMAIN counters, <<"operation_">>)

ErrorTypes == {"RuntimeError", "ValueError"}

MetricsFrame == UNCHANGED <<service_vars, semaphore, sem_vars, params_vars, search_vars, rag_vars,
                            api_vars, clear_vars, delete_vars, context_vars, seed_vars, cache_vars,
                            alert_vars>>

\* dispatch: call_next returned a response; 200 <= status_code < 400 is
\* "success", any other status "error".
Dispatch_Response(status) ==
    /\ Recorded < MaxRecorded
    /\ counters' = RecordChatRequest(counters, status)
    /\ UNCHANGED current_metrics
    /\ MetricsFrame

\* dispatch: call_next raised.  trace_request counts the operation error,
\* dispatch records the error; the request itself is not counted.
Dispatch_Raises(error_type) ==
    /\ Recorded < MaxRecorded
    /\ counters' = RecordError(TraceRequestError(counters, error_type), error_type)
    /\ UNCHANGED current_metrics
    /\ MetricsFrame

\* _check_alert_rules: the derived metrics are calculated
Metrics_Calculate ==
    /\ current_metrics' = CalculateDerivedMetrics(counters)
    /\ current_metrics' # current_metrics
    /\ UNCHANGED counters
    /\ MetricsFrame

InitMetrics ==
    /\ ServiceInit /\ max_conversation_history = MaxHistoryLimit
    /\ SemInit
    /\ ParamsIdle
    /\ SearchIdle
    /\ RagIdle
    /\ ApiIdle
    /\ ClearIdle
    /\ DeleteIdle
    /\ ContextIdle
    /\ SeedIdle
    /\ CacheIdle
    /\ AlertIdle
    /\ MetricsIdle

NextMetrics ==
    \/ \E status \in {"success", "error"} : Dispatch_Response(status)
    \/ \E error_type \in ErrorTypes : Dispatch_Raises(error_type)
    \/ Metrics_Calculate

SpecMetrics == InitMetrics /\ [][NextMetrics]_vars

(***************************************************************************)
(* Properties of the conversation contexts (specification Spec).           *)
(***************************************************************************)
Stored(cid) ==
    IF cid \in DOMAIN conversation_contexts THEN conversation_contexts[cid] ELSE <<>>

Trailing(s, k) == SubSeq(s, Len(s) - k + 1, Len(s))

IsSuffix(s, full) == Len(s) <= Len(full) /\ s = Trailing(full, Len(s))

\* C1: for a positive configured maximum, no conversation ever stores more
\* messages than settings.max_conversation_history.
C1_HistoryWithinMaximum ==
    max_conversation_history >= 1 =>
        \A cid \in DOMAIN conversation_contexts :
            Len(conversation_contexts[cid]) <= max_conversation_history

\* C2: for a positive configured maximum N, the stored history is the trailing
\* min(N, total) messages of everything recorded for the conversation since it
\* was created or last cleared.
C2_HistoryIsTrailingWindow ==
    max_conversation_history >= 1 =>
        \A cid \in ConvIds :
            Stored(cid) = Trailing(recorded[cid],
                                   Min(max_conversation_history, Len(recorded[cid])))

\* A step in which task t's generate_response call returns its ChatResponse.
GenerateResponseSucceeds(t) ==
    /\ task[t].pc = "g_llm"
    /\ returned'.call = task[t].call
    /\ returned'.result = "ok"

\* The history of t's conversation after the step is a suffix of the old one
\* followed by the user message and then the reply of t's call, and a history
\* created by the step holds exactly these two.
ExchangeAppended(t) ==
    LET cid == task[t].conversation_id
        old == Stored(cid)
        new == conversation_contexts'[cid]
        n == Len(new)
    IN  /\ cid \in DOMAIN conversation_contexts'
        /\ n >= 2
        /\ new[n - 1].role = "user" /\ new[n - 1].content.text = UserText(task[t].call)
        /\ new[n].role = "assistant" /\ new[n].content.text = ReplyText(task[t].call)
        /\ IsSuffix(SubSeq(new, 1, n - 2), old)
        /\ cid \notin DOMAIN conversation_contexts => n = 2

\* C3 (as stated): every successful generate_response call appends the user
\* message and then the reply to the end of the conversation's history.
C3_SuccessAppendsExchange ==
    [][\A t \in Tasks : GenerateResponseSucceeds(t) => ExchangeAppended(t)]_vars

\* C3 (amended): the same, when the configured maximum is at least 2.
C3_SuccessAppendsExchangeWhenRoom ==
    [][\A t \in Tasks :
          (GenerateResponseSucceeds(t) /\ max_conversation_history >= 2)
              => ExchangeAppended(t)]_vars

\* A second successful exchange of a conversation, under a maximum that trims it.
C3_Witness ==
    /\ returned.kind = "generate_response" /\ returned.result = "ok"
    /\ max_conversation_history = 2
    /\ Len(recorded[returned.conversation_id]) = 4
    /\ Len(Stored(returned.conversation_id)) = 2

\* C4: calls of one conversation that run concurrently lose no exchange: as
\* long as everything recorded fits the configured maximum, the history holds
\* every recorded message, in order.
C4_NoExchangeLost ==
    \A cid \in ConvIds :
        Len(recorded[cid]) <= max_conversation_history => Stored(cid) = recorded[cid]

\* Two overlapping calls of one conversation have both succeeded and the
\* history holds the four messages.
C4_Witness ==
    \E cid \in ConvIds :
        /\ Len(Stored(cid)) = 4
        /\ max_conversation_history = 4
        /\ \A i \in 1..4 : Stored(cid)[i].content.text[1][1] \in concurrent
        /\ \E i, j \in 1..4 : Stored(cid)[i].content.text[1][1] #
                              Stored(cid)[j].content.text[1][1]
        /\ \A t \in Tasks : task[t].pc = "idle"

(***************************************************************************)
(* Properties of the rate-limited section (specification SpecSem).         *)
(***************************************************************************)
\* C5: at most 10 calls (of both methods together) are inside the section; a
\* call enters only while fewer than 10 are inside, and a call is made to
\* wait exactly when 10 are inside.
C5_AtMostTenInSection ==
    /\ [](Inside <= SemaphoreLimit)
    /\ [][Inside' > Inside => Inside < SemaphoreLimit]_vars
    /\ [][Waiting' > Waiting => Inside = SemaphoreLimit]_vars

\* Ten calls of both methods are inside and an eleventh is waiting.
C5_Witness ==
    /\ Inside = SemaphoreLimit
    /\ Waiting = 1
    /\ section["generate_response"] > 0
    /\ section["generate_streaming_response"] > 0

(***************************************************************************)
(* Properties of the LLM call's parameters (specification SpecParams).     *)
(***************************************************************************)
\* C10: a supplied temperature or max_tokens is passed to the LLM call as
\* supplied, and the settings default is passed for a parameter left out.
C10_SuppliedParametersPassed ==
    llm_call.made =>
        /\ llm_call.temperature = IF request.temperature.given
                                  THEN request.temperature.value ELSE default_temperature
        /\ llm_call.max_tokens = IF request.max_tokens.given
                                 THEN request.max_tokens.value ELSE max_tokens

(***************************************************************************)
(* Properties of generate_streaming_response (specification Spec).         *)
(***************************************************************************)
\* The concatenation of the contents of the chunks that are not final.
RECURSIVE StreamedText(_)
StreamedText(stream) ==
    IF stream = <<>> THEN <<>>
    ELSE (IF Head(stream).is_final THEN <<>> ELSE Head(stream).content)
             \o StreamedText(Tail(stream))

\* A step that ends t's stream after its final chunk was delivered without
\* error: the consumer either asked for more or stopped reading there.  The
\* streamed content is one that a ChatMessage can hold.
StreamEndsAfterFinal(t) ==
    /\ task[t].pc = "s_final"
    /\ ValidContent(task[t].full_response)
    /\ task'[t].pc = "idle"

\* The history of t's conversation after the step ends with the user
\* message followed by an assistant message holding all streamed content.
StreamedExchangeStored(t) ==
    LET cid == task[t].conversation_id
        new == conversation_contexts'[cid]
        n == Len(new)
    IN  /\ cid \in DOMAIN conversation_contexts'
        /\ n >= 2
        /\ new[n - 1].role = "user" /\ new[n - 1].content.text = UserText(task[t].call)
        /\ new[n].role = "assistant"
        /\ new[n].content.text = StreamedText(task[t].stream)

\* C11: once a stream has delivered its final chunk without error and ends,
\* the history holds the user message followed by the assistant message made
\* of all streamed chunks, whether the consumer read on or stopped at the
\* final chunk (maximum of at least 2, so that the exchange fits).
C11_StreamedExchangeStored ==
    [][\A t \in Tasks :
          (StreamEndsAfterFinal(t) /\ max_conversation_history >= 2)
              => StreamedExchangeStored(t)]_vars

\* A step in which the LLM call that starts t's stream fails.
StreamStartFails(t) ==
    /\ task[t].pc = "s_llm"
    /\ task'[t].pc \notin {"s_llm", "s_iter"}

\* C12: when the LLM call that starts a stream fails, the generator ends by
\* raising to its caller, and has yielded no chunk.
C12_StartFailureRaises ==
    [][\A t \in Tasks :
          StreamStartFails(t) =>
              /\ task'[t].pc = "idle"
              /\ returned'.call = task[t].call
              /\ returned'.result = "raised"]_vars

\* C13: in every stream only the last chunk may be final, and a stream that
\* the generator is about to end has a final chunk as its last.
C13_OneFinalChunkLast ==
    \A t \in Tasks :
        /\ \A i \in 1..(Len(task[t].stream) - 1) : ~task[t].stream[i].is_final
        /\ task[t].pc \in {"s_final", "s_error"} =>
               /\ task[t].stream # <<>>
               /\ task[t].stream[Len(task[t].stream)].is_final

(***************************************************************************)
(* Properties of the retry of generate_response (specification Spec).      *)
(***************************************************************************)
\* A step in which t's call makes its LLM request again.
AttemptsAgain(t) ==
    /\ task[t].attempt >= 1
    /\ task'[t].attempt = task[t].attempt + 1

\* C19: a generate_response call makes the LLM request at most 3 times, and
\* makes it again only after an httpx.HTTPError or an asyncio.TimeoutError;
\* after any other error the call is not attempted again.
C19_AtMostThreeAttempts ==
    /\ [](\A t \in Tasks : task[t].attempt <= 3)
    /\ [][\A t \in Tasks :
             AttemptsAgain(t) =>
                 task[t].error \in {"httpx.HTTPError", "asyncio.TimeoutError"}]_vars
    /\ [][\A t \in Tasks :
             task'[t].error \in {"APIError", "RateLimitError", "APITimeoutError"}
                 => task'[t].pc = "idle"]_vars

\* A call that makes its third LLM request.
C19_Witness ==
    \E t \in Tasks : task[t].pc = "g_llm" /\ task[t].attempt = 3

(***************************************************************************)
(* Properties of semantic_search (specification SpecSearch).               *)
(***************************************************************************)
\* C8: every result semantic_search returns has a similarity score between
\* the query's threshold and 1.0, and is a document whose hybrid score
\* max(reranker / 4, score) reaches the threshold.
C8_ResultsWithinThreshold ==
    \A k \in 1..Len(search_results) :
        LET r == search_results[k]
            doc == index_answer[r.document_id]
        IN  /\ r.similarity_score >= query.similarity_threshold
            /\ r.similarity_score <= One
            /\ \/ 4 * query.similarity_threshold <= 
                      (IF doc.reranker_score.given THEN doc.reranker_score.value ELSE 0)
               \/ query.similarity_threshold <=
                      (IF doc.score.given THEN doc.score.value ELSE 0)

\* A RAG-threshold search that dropped a document below 0.7, kept one at
\* exactly 0.7 and capped one above 1.0.
C8_Witness ==
    /\ search_pc = "returned"
    /\ query.similarity_threshold = Points(70)
    /\ Len(index_answer) > Len(search_results)
    /\ \E k \in 1..Len(search_results) : search_results[k].similarity_score = Points(70)
    /\ \E k \in 1..Len(search_results) :
           /\ search_results[k].similarity_score = One
           /\ Similarity(index_answer[search_results[k].document_id]) > One

(***************************************************************************)
(* Properties of generate_rag_response (specification SpecRag).            *)
(***************************************************************************)
\* A generate_rag_response call that has ended, by return or by raise.
RagEnded == rag.pc = "idle" /\ rag_response.status # "none"

\* The message contains a career keyword, whatever the case of its letters.
ContainsCareerKeyword(message) ==
    \E k \in 1..Len(career_keywords) :
        \E start \in 1..Len(message.text) :
            /\ start + Len(career_keywords[k]) - 1 <= Len(message.text)
            /\ \A i \in 1..Len(career_keywords[k]) :
                   Lower(<<message.text[start + i - 1]>>) = <<career_keywords[k][i]>>

\* C6: a generate_rag_response call queries the search service if and only
\* if the message contains a career keyword; for any other message the
\* reply comes from the standard prompt, with knowledge_enhanced = false.
C6_SearchIffCareerKeyword ==
    RagEnded =>
        /\ (rag.search_calls > 0) <=> ContainsCareerKeyword(rag.message)
        /\ ~ContainsCareerKeyword(rag.message) /\ rag_response.status = "ok" =>
               /\ rag.prompt.kind = "standard"
               /\ ~rag_response.knowledge_enhanced

\* C7: an augmented prompt never holds more than 5 retrieved snippets.
C7_AtMostFiveSnippets ==
    rag.prompt.kind = "augmented" => Len(rag.prompt.snippets) <= max_retrieved_docs

\* C9: with at least one retrieved source, confidence_score is
\* min(0.95, 0.7 + 0.25 * a), a being the mean of the sources' similarity
\* scores, and so lies between 0.7 and 0.95.
C9_ConfidenceFormula ==
    rag_response.status = "ok" /\ Len(rag_response.retrieved_sources) >= 1 =>
        LET sources == rag_response.retrieved_sources
            n == Len(sources)
            total == SumSimilarity(sources)
            c == rag_response.confidence_score
            \* 0.7 + 0.25 * (total / (n * One)), over the denominator 40 * n * One
            linear == 28 * n * One + 10 * total
            cap == 38 * n * One
        IN  /\ c.given
            /\ c.value.den > 0
            /\ c.value.num * (40 * n * One) = c.value.den * Min(cap, linear)
            /\ 7 * c.value.den <= 10 * c.value.num
            /\ 100 * c.value.num <= 95 * c.value.den

\* A response built on several sources of different similarity.
C9_Witness ==
    /\ rag_response.status = "ok"
    /\ Len(rag_response.retrieved_sources) >= 2
    /\ \E i, j \in 1..Len(rag_response.retrieved_sources) :
           rag_response.retrieved_sources[i].similarity_score
               # rag_response.retrieved_sources[j].similarity_score
    /\ rag_response.confidence_score.given

(***************************************************************************)
(* Properties of POST /chat (specification SpecApi).                       *)
(***************************************************************************)
\* C14: whenever the AI service raised an error while the request was
\* handled, the answer has status 500.
C14_ServiceErrorGives500 ==
    api.pc = "done" /\ api.raised # "none" => api.status = 500

\* A body that the claim lists: message missing, empty, only whitespace or
\* longer than 4000 characters, user_id missing, temperature outside 0 to 2,
\* or max_tokens below 1.
Rejectable(body) ==
    \/ ~body.message.given
    \/ body.message.value.len = 0
    \/ /\ body.message.value.len = Len(body.message.value.text)
       /\ \A i \in 1..Len(body.message.value.text) :
              body.message.value.text[i] \in Whitespace
    \/ body.message.value.len > 4000
    \/ ~body.user_id.given
    \/ body.temperature.given /\ (body.temperature.value < 0 \/ body.temperature.value > 20)
    \/ body.max_tokens.given /\ body.max_tokens.value < 1

\* A step in which a request arrives.
RequestArrives == api'.requests = api.requests + 1

C16_ClearRemovesOnlyThatConversation ==
    clear_call.service # "none" =>
        LET cid == clear_call.conversation_id
            before == clear_call.before
            after == clear_call.after
        IN  /\ cid \notin DOMAIN after
            /\ DOMAIN after = (DOMAIN before) \ {cid}
            /\ \A c \in DOMAIN after : after[c] = before[c]
            /\ cid \notin DOMAIN before => after = before

\* A clearing call on a store that held the history of two conversations.
C16_Witness ==
    /\ clear_call.service = "rag"
    /\ DOMAIN clear_call.before = ConvIds
    /\ \A c \in ConvIds : Len(clear_call.before[c]) >= 2
    /\ Cardinality(DOMAIN clear_call.after) = 1

(***************************************************************************)
(* Properties of DELETE /conversations/{id} (specification SpecDelete).    *)
(***************************************************************************)
\* The call that a stored message belongs to.
CallOf(message) == message.content.text[1][1]

\* C17: once the clearing of an accepted DELETE has run, the conversation
\* has no history except from chat requests submitted after the DELETE was
\* accepted, also when a request of the conversation was in flight while
\* the clearing ran.
C17_ClearedStaysCleared ==
    \A cid \in ConvIds :
        deletion[cid].state = "cleared" =>
            \A i \in 1..Len(Stored(cid)) :
                CallOf(Stored(cid)[i]) > deletion[cid].accepted_at

(***************************************************************************)
(* Properties of _build_conversation_context (specification SpecContext).  *)
(***************************************************************************)
\* C18: the messages sent to the LLM start with the system prompt, end with
\* the current user message, and hold in between the most recent stored
\* messages of the conversation, at most 10, in their stored order.
C18_MessagesCarryRecentHistory ==
    sent.pc = "llm" =>
        LET messages == sent.messages
            n == Len(messages)
            stored == Stored(sent.conversation_id)
            k == Min(10, Len(stored))
        IN  /\ n = k + 2
            /\ messages[1].role = "system" /\ messages[1].content = system_prompt
            /\ messages[n].role = "user" /\ messages[n].content = UserContent(calls)
            /\ \A i \in 1..k : messages[1 + i] = stored[Len(stored) - k + i]

\* A follow-up request of a conversation that stores more than 10 messages.
C18_Witness ==
    /\ sent.pc = "llm"
    /\ Len(Stored(sent.conversation_id)) = 12
    /\ Len(sent.messages) = 12

(***************************************************************************)
(* Properties of knowledge-base seeding (specification SpecSeed).          *)
(***************************************************************************)
\* C20: seed_knowledge_base returns True only when the sample documents
\* were indexed: once it has returned True, every sample document is in the
\* index and none was counted as failed; if indexing failed, it returned False.
C20_TrueOnlyWhenIndexed ==
    (seed.pc = "returned" /\ seed.result = "True")
        => (seed.indexed = SampleDocuments /\ seed.status.documents_failed = 0)

(***************************************************************************)
(* Properties of the response cache (specification SpecCache).             *)
(***************************************************************************)
\* C21: whatever calls of get, set and clear were made, the cache holds at
\* most max_size entries.
C21_AtMostMaxSize == Len(cache) <= max_size

C21_Witness ==
    /\ max_size = MaxCacheSize
    /\ Len(cache) = max_size
    /\ cache_call.op = "set"
    /\ cache_call.removed # <<>>

\* C22: when set removes an entry to make room, no entry left in the cache
\* has an older timestamp than the removed one.
C22_OldestIsEvicted ==
    (cache_call.op = "set" /\ cache_call.removed # <<>>)
        => \A i \in 1..Len(cache) : cache[i].timestamp >= cache_call.removed[1].timestamp

C22_Witness ==
    /\ cache_call.op = "set"
    /\ cache_call.removed # <<>>
    /\ \E i \in 1..Len(cache) :
        /\ cache[i].key # GenerateKey(cache_call.message, cache_call.use_rag)
        /\ cache[i].timestamp > cache_call.removed[1].timestamp

LastStored(message, use_rag) ==
    IF <<Normalised(message), use_rag>> \in DOMAIN last_set
    THEN last_set[<<Normalised(message), use_rag>>]
    ELSE [response |-> "None", at |-> 0 - 1]

\* C23: a response returned by get is the one stored last for the same
\* normalised message and flag, and it was stored at most ttl_seconds ago;
\* a lookup that finds an expired entry removes it and reports a miss; a
\* lookup that finds an entry within its TTL returns that response.
C23_GetWithinTtl ==
    cache_call.op = "get" =>
        LET stored == LastStored(cache_call.message, cache_call.use_rag)
            found == cache_call.found
        IN  /\ cache_call.result # "None" =>
                /\ stored.at >= 0
                /\ cache_call.result = stored.response
                /\ cache_call.at - stored.at <= ttl_seconds
            /\ (found # NoEntry /\ cache_call.at - found.timestamp > ttl_seconds) =>
                /\ cache_call.result = "None"
                /\ cache_call.removed = <<found>>
                /\ Lookup(cache, found.key) = NoEntry
            /\ (found # NoEntry /\ cache_call.at - found.timestamp <= ttl_seconds) =>
                cache_call.result = stored.response

\* a hit through another spelling of the message, and an expired lookup
C23_Witness ==
    /\ cache_call.op = "get"
    /\ cache_call.found # NoEntry
    /\ \/ /\ cache_call.result # "None"
          /\ cache_call.message # Normalised(cache_call.message)
          /\ Cardinality(DOMAIN last_set) >= 2
       \/ cache_call.removed # <<>>

\* C30: storing a response for a key that is already cached removes no
\* other entry.
C30_ReplaceKeepsOthers ==
    (cache_call.op = "set" /\ cache_call.found # NoEntry)
        => \A i \in 1..Len(cache_call.removed) :
                cache_call.removed[i].key = cache_call.found.key

(***************************************************************************)
(* Properties of failed calls and of the shape of a history                *)
(* (specification Spec).                                                   *)
(***************************************************************************)
\* An attempt of t's generate_response call ends without the call succeeding:
\* it is retried after a backoff, or the call raises.
AttemptFails(t) ==
    /\ task[t].pc = "g_llm"
    /\ task'[t].pc # "g_llm"
    /\ ~(returned'.call = task[t].call /\ returned'.result = "ok")

\* C25: a generate_response attempt that fails or is retried leaves every
\* conversation's history as it was, and a call that succeeds adds its user
\* message once, followed by the reply.
C25_FailedAttemptAddsNothing ==
    [][\A t \in Tasks :
          /\ AttemptFails(t) => conversation_contexts' = conversation_contexts
          /\ GenerateResponseSucceeds(t) =>
                recorded'[task[t].conversation_id] =
                    recorded[task[t].conversation_id]
                        \o <<ChatMessage("user", UserContent(task[t].call)),
                             conversation_contexts'[task[t].conversation_id]
                                 [Len(conversation_contexts'[task[t].conversation_id])]>>]_vars

CompleteExchanges(history) ==
    /\ Len(history) % 2 = 0
    /\ \A i \in 1..Len(history) :
          history[i].role = (IF i % 2 = 1 THEN "user" ELSE "assistant")

\* C26: every stored history is a sequence of complete exchanges: roles
\* alternate user, assistant, from a user message to an assistant message.
\* Stated for an even maximum of at least 2, where trimming removes whole
\* exchanges.
C26_HistoryIsCompleteExchanges ==
    (max_conversation_history >= 2 /\ max_conversation_history % 2 = 0) =>
        \A cid \in DOMAIN conversation_contexts :
            CompleteExchanges(conversation_contexts[cid])

(***************************************************************************)
(* Properties of the alerts (specification SpecAlerts).                    *)
(***************************************************************************)
RuleNamed(name) ==
    alert_rules[CHOOSE i \in 1..Len(alert_rules) : alert_rules[i].name = name]

TrackedAlerts ==
    {active_alerts[id] : id \in DOMAIN active_alerts}
        \union {alert_history[i] : i \in 1..Len(alert_history)}

NotificationsOf(alert) ==
    {i \in 1..Len(notifications) :
        notifications[i].id = alert.id /\ notifications[i].fired_at = alert.fired_at}

C27_NotifiedAtMostOnce ==
    \A alert \in TrackedAlerts : Cardinality(NotificationsOf(alert)) <= 1

\* C28: no alert stays in active_alerts once a check has found its rule no
\* longer breached, acknowledged or not.
C28_ClearedAlertIsResolved ==
    \A id \in DOMAIN active_alerts : ~active_alerts[id].seen_clear

(***************************************************************************)
(* Properties of the derived rates (specification SpecMetrics).            *)
(***************************************************************************)
\* C29: the calculated error and success rates lie between 0 and 100 and
\* sum to 100, and the error rate is above 0 when an error was counted.
C29_RatesArePercentages ==
    current_metrics.calculated =>
        LET error_rate == current_metrics.error_rate_percentage
            success_rate == current_metrics.success_rate_percentage
        IN  /\ RatLeq(Rat(0, 1), error_rate) /\ RatLeq(error_rate, Rat(100, 1))
            /\ RatLeq(Rat(0, 1), success_rate) /\ RatLeq(success_rate, Rat(100, 1))
            /\ RatEq(RatAdd(error_rate, success_rate), Rat(100, 1))
            /\ current_metrics.total_errors > 0 => ~RatLeq(error_rate, Rat(0, 1))

====
